---- MODULE Spec2Model ----
(***************************************************************************)
(* Fetch / cache / concurrency layer of the fund app (api/fundFast.ts, as  *)
(* bundled in src/src/views/Filter.vue lines 450-1471).                    *)
(*                                                                         *)
(* The JavaScript event loop is modelled as follows: every handler         *)
(* (a call of an exported function, a timer callback, a script's onload /  *)
(* onerror, the JSONP callback) is one action; the continuation of the     *)
(* `await fn()` inside withConcurrencyControl is a microtask, kept in      *)
(* `microtasks` and run before any further event of the fetch layer.       *)
(***************************************************************************)
EXTENDS Integers, Sequences, FiniteSets, TLC

\* ------------------------------------------------------------------ bounds
MaxTasks == 7        \* tasks submitted to the limiter in LimiterSpec
MaxReq == 2          \* fetchFundEstimateFast calls in Spec
MaxVal == 1          \* distinct fresh estimate payloads the server may send
MaxScripts == 6      \* fetchNetValueHistoryFast calls in ScriptSpec
MaxIdx == 2          \* index / ranking calls in IndexSpec
MaxDiff == 2         \* length of data.data.diff in a response
MaxLoads == 2        \* calls of the pingzhongdata fetchers in LoaderSpec
MaxHist == 2         \* records of a history given to calculatePeriodReturns
MaxKl == 2           \* history / K-line calls in KLineSpec

\* --------------------------------------------------------------- constants
MAX_CONCURRENT == 5

Codes == {"A", "B"}
FreshVals == 1..MaxVal

\* A jsonpgz payload.  NoData is `undefined` (also a cache miss); a payload
\* whose fundcode is "" is one that lacks the fundcode field.
NoData == [fundcode |-> "", gsz |-> 0]
Payload(c, v) == [fundcode |-> c, gsz |-> v]
\* the value a previous session may have left in the persisted cache
Stale(c) == Payload(c, 0)

\* promise outcomes
Pending == [kind |-> "none", val |-> NoData]
Fulfilled(v) == [kind |-> "ok", val |-> v]
Rejected == [kind |-> "err", val |-> NoData]

VARIABLES
  activeRequests,     \* let activeRequests
  requestQueue,       \* const requestQueue (sequence of task ids)
  pc,                 \* task -> "new" | "queued" | "running" | "settled" | "done"
  inner,              \* task -> outcome of the promise returned by fn()
  result,             \* task -> outcome of the promise returned to the caller
  waited,             \* history: task -> its place in requestQueue when pushed (0: never)
  microtasks,         \* pending `await fn()` continuations, in settle order
  code,               \* task -> fund code of the estimate fetch ("" = plain task)
  persisted,          \* task -> `persisted` captured by the call's closure
  pendingRequests,    \* let pendingRequests (sequence of task ids: the records)
  timers,             \* live 8 s timeouts, in the order they were set
  script,             \* task -> "none" | "loading" | "loaded" | "cleaned" | "failed"
  inDom,              \* tasks whose script element is in document.body
  jsonpInitialized,   \* let jsonpInitialized
  jsonpArg,           \* history: the argument of the latest jsonpgz call
  cache,              \* live cache: code -> payload (estimate_<code>)
  persistCache,       \* persisted cache: code -> payload
  trading,            \* what isTradingTime() returns now
  nvCode,             \* history fetch -> fund code
  nvScript,           \* history fetch -> "none" | "loading" | "loaded" | "failed"
  nvTimers,           \* live 15 s timeouts of history fetches, in the order set
  nvInDom,            \* history fetches whose script element is in document.body
  nvResult,           \* history fetch -> outcome of the promise it returned
  nvCache,            \* live cache: code -> entry (netvalue_<code>_30)
  Data_netWorthTrend, \* window.Data_netWorthTrend
  batchCodes,         \* the `codes` argument of the fetchFundEstimatesBatch call
  batchTasks,         \* the fetchFundEstimateFast calls it has made, in order
  batchState,         \* "idle" | "fanout" | "waiting" | "resolved" | "rejected"
  collected,          \* batch calls whose `async code => ...` wrapper has ended
  results,            \* const results = new Map(): code -> payload (NoData: absent)
  ixKey,              \* index call -> its cacheKey ("": not called yet)
  ixState,            \* index call -> "new" | "fetching" | "done"
  ixResp,             \* history: index call -> the response it received
  ixResult,           \* index call -> outcome of the promise it returned
  ixTimers,           \* live 8 s timeouts of fetchGlobalIndices, in the order set
  ixCache,            \* live cache: index cacheKey -> entry
  ldKey,              \* pingzhongdata call -> its cacheKey
  ldScript,           \* pingzhongdata call -> "none" | "loading" | "loaded" | "failed"
  ldPayload,          \* history: pingzhongdata call -> what the loaded file held
  ldResult,           \* pingzhongdata call -> outcome of the promise it returned
  ldTimers,           \* live timeouts of pingzhongdata calls, in the order set
  ldCache,            \* live cache: cacheKey -> value (Nothing: no entry)
  pingzhong,          \* the window.Data_* globals the last file left behind
  lastCleared,        \* history: the code clearFundCache has just been called with
  prHistory,          \* the history the latest calculatePeriodReturns call fetched
  prResult,           \* what that call returned
  prFrom,             \* history: "none" | "cache" | "history", where it came from
  prCache,            \* live cache: entry of period_<code>
  klCode,             \* call -> fund code of a fetchSimpleKLineData call ("": none)
  klResult,           \* call -> outcome of the promise fetchSimpleKLineData returned
  klCache,            \* live cache: code -> entry (kline_<code>_<days>)
  watchlist,          \* fundStore: the watchlist, a sequence of fund codes
  toast,              \* the toast on screen
  adding,             \* fundStore.addFund calls not yet settled (their codes)
  addFundCalls,       \* history: number of fundStore.addFund calls made
  lastFund,           \* history: fund.code of the latest handleAdd invocation
  addSeq,             \* history: flips at every handleAdd invocation
  fundCode,           \* chart: props.fundCode
  realtimeValue,      \* chart: props.realtimeValue
  lastClose,          \* chart: props.lastClose
  chartData,          \* chart: const chartData
  periodReturns,      \* chart: const periodReturns
  isLoading,          \* chart: const isLoading
  chLoads,            \* chart: loadData call -> its code, position and results
  activePeriod,       \* chart: const activePeriod
  spStep,             \* chart: position of the selectPeriod call under way
  spKey,              \* chart: the key selectPeriod was called with
  tickQueue,          \* chart: callbacks waiting for nextTick
  intradayData,       \* chart: const intradayData
  baseValue,          \* chart: const baseValue
  clock,              \* chart: the second new Date() reads
  mounted,            \* chart: "setup" | "mounted" | "unmounted"
  canvasRef,          \* chart: canvasRef.value is an element
  resizeObserver,     \* chart: the ResizeObserver is observing
  animationFrame,     \* chart: let animationFrame (0: null)
  frames,             \* chart: requestAnimationFrame requests pending
  startTimer,         \* chart: setTimeout(startAnimation, 500) is pending
  retryTimers,        \* chart: number of setTimeout(drawChart, 50) pending
  chartOp,            \* history: the chart function that ran last
  homeList,           \* Home: fundStore.watchlist, code -> its estimate fields
  checks,             \* Home: code -> number of alertStore.checkAlerts calls
  fired,              \* Home: code -> number of alerts fired
  fundType,           \* filter view: const fundType
  sortBy,             \* filter view: const sortBy
  minReturn,          \* filter view: const minReturn
  fundList,           \* filter view: const fundList, one element per page kept
  isLoadingFunds,     \* filter view: const isLoading
  isRefreshing,       \* filter view: const isRefreshing
  hasMore,            \* filter view: const hasMore
  page,               \* filter view: const page
  loading,            \* filter view: the loadFunds call awaiting its response
  applied,            \* history: applyFilter has been called
  filterToast,        \* filter view: the toast on screen
  keyword,            \* search view: const keyword
  searchResults,      \* search view: const searchResults
  isSearching,        \* search view: const isSearching
  searchTimer,        \* search view: keyword of the pending debounce timer
  searches,           \* search view: doSearch call -> its keyword and position
  searchToast         \* search view: the toast on screen

vars == <<activeRequests, requestQueue, pc, inner, result, waited, microtasks,
          code, persisted, pendingRequests, timers, script, inDom,
          jsonpInitialized, jsonpArg, cache, persistCache, trading,
          nvCode, nvScript, nvTimers, nvInDom, nvResult, nvCache,
          Data_netWorthTrend,
          batchCodes, batchTasks, batchState, collected, results,
          ixKey, ixState, ixResp, ixResult, ixTimers, ixCache,
          ldKey, ldScript, ldPayload, ldResult, ldTimers, ldCache, pingzhong,
          lastCleared, prHistory, prResult, prFrom, prCache,
          klCode, klResult, klCache,
          watchlist, toast, adding, addFundCalls, lastFund, addSeq,
          fundCode, realtimeValue, lastClose, chartData, periodReturns,
          isLoading, chLoads, activePeriod, spStep, spKey, tickQueue,
          intradayData, baseValue, clock, mounted, canvasRef,
          resizeObserver, animationFrame, frames, startTimer, retryTimers,
          chartOp, homeList, checks, fired,
          fundType, sortBy, minReturn, fundList, isLoadingFunds, isRefreshing,
          hasMore, page, loading, applied, filterToast,
          keyword, searchResults, isSearching, searchTimer, searches,
          searchToast>>

limiterVars == <<activeRequests, requestQueue>>
fetchVars == <<pendingRequests, timers, script, inDom, jsonpInitialized>>
cacheVars == <<cache, persistCache, trading>>
estimateVars == <<pc, inner, result, waited, microtasks, code, persisted,
                  jsonpArg>>
histVars == <<nvCode, nvScript, nvTimers, nvInDom, nvResult, nvCache,
              Data_netWorthTrend>>

batchVars == <<batchCodes, batchTasks, batchState, collected, results>>
indexVars == <<ixKey, ixState, ixResp, ixResult, ixTimers, ixCache>>
klineVars == <<klCode, klResult, klCache>>
watchVars == <<watchlist, toast, adding, addFundCalls, lastFund, addSeq>>
periodVars == <<prHistory, prResult, prFrom, prCache>>
loaderVars == <<ldKey, ldScript, ldPayload, ldResult, ldTimers, ldCache,
                pingzhong, lastCleared>>
propVars == <<fundCode, realtimeValue, lastClose>>
dataVars == <<chartData, periodReturns, isLoading, chLoads>>
selVars == <<activePeriod, spStep, spKey, tickQueue>>
bufVars == <<intradayData, baseValue, clock>>
lifeVars == <<mounted, canvasRef, resizeObserver>>
animVars == <<animationFrame, frames, startTimer, retryTimers>>
chartVars == <<propVars, dataVars, selVars, bufVars, lifeVars, animVars,
               chartOp>>
\* the state of the views
homeVars == <<homeList, checks, fired>>
filterVars == <<fundType, sortBy, minReturn, fundList, isLoadingFunds,
                isRefreshing, hasMore, page, loading, applied, filterToast>>
searchVars == <<keyword, searchResults, isSearching, searchTimer, searches,
                searchToast>>
viewVars == <<chartVars, homeVars, filterVars, searchVars>>
\* the state outside the limiter, the estimate and the history fetcher
extVars == <<batchVars, indexVars, loaderVars, periodVars, klineVars,
             watchVars, viewVars>>
coreVars == <<limiterVars, fetchVars, cacheVars, estimateVars, histVars>>
\* what the steps of one group of functions leave alone
notBatch ==
  <<indexVars, loaderVars, periodVars, klineVars, watchVars,
    viewVars>>
notIndex ==
  <<coreVars, batchVars, loaderVars, periodVars, klineVars, watchVars,
    viewVars>>
notLoader ==
  <<coreVars, batchVars, indexVars, periodVars, klineVars, watchVars,
    viewVars>>
notPeriod ==
  <<coreVars, batchVars, indexVars, loaderVars, klineVars, watchVars,
    viewVars>>
notKLine ==
  <<batchVars, indexVars, loaderVars, periodVars, watchVars,
    viewVars>>
\* the chart's steps: loadData calls clearFundCache, which acts on loaderVars
notChart ==
  <<coreVars, batchVars, indexVars, periodVars, klineVars, watchVars,
    homeVars, filterVars, searchVars>>
notHome ==
  <<coreVars, batchVars, indexVars, loaderVars, periodVars, klineVars,
    watchVars, chartVars, filterVars, searchVars>>
notFilter ==
  <<coreVars, batchVars, indexVars, loaderVars, periodVars, klineVars,
    watchVars, chartVars, homeVars, searchVars>>
notSearch ==
  <<coreVars, batchVars, indexVars, loaderVars, periodVars, klineVars,
    watchVars, chartVars, homeVars, filterVars>>
notWatch ==
  <<coreVars, batchVars, indexVars, loaderVars, periodVars, klineVars,
    viewVars>>

Tasks == DOMAIN pc

\* ------------------------------------------------------------- the chart
\* bounds: loadData calls, pending drawChart retry timers, seconds the clock
\* cycles through
MaxChart == 2
MaxRetry == 2
Seconds == 3
\* const maxPoints = 500
maxPoints == 500
\* bounds: alertStore.checkAlerts calls per fund, pages of the filter view,
\* doSearch calls
MaxChecks == 3
MaxPage == 2
MaxSearch == 2
\* no loadFunds call is awaiting its response; no debounce timer is pending
NoLoad == [ft |-> "-", sc |-> "-", pi |-> 0, reset |-> FALSE, refresh |-> FALSE]
NoTimer == "-"
\* an empty array of rows: ref<SimpleKLineData[]>([]), ref<PeriodReturn[]>([])
NoRows == [of |-> "", rows |-> 0]

\* ------------------------------------------------------------- sequences
\* Array.prototype.splice(i, 1); i = 0 removes nothing
RemoveAt(s, i) ==
  IF i = 0 THEN s
  ELSE [j \in 1..(Len(s) - 1) |-> IF j < i THEN s[j] ELSE s[j + 1]]

\* clearTimeout(handle of task t)
ClearTimer(ts, t) == SelectSeq(ts, LAMBDA x : x # t)

SeqOf(S) == IF S = {} THEN <<>> ELSE <<CHOOSE t \in S : TRUE>>

\* --------------------------------------------------------------- limiter
HasSlotOff(a) == a <= MAX_CONCURRENT
\* `activeRequests < MAX_CONCURRENT`
HasSlot(a) == a < MAX_CONCURRENT

EnqueueFront(q, t) == <<t>> \o q
\* requestQueue.push(execute)
Enqueue(q, t) == Append(q, t)

ExecuteNextNone(a, q) == {}
\* executeNext(): the task it shifts off the queue and runs, if any
ExecuteNext(a, q) == IF Len(q) > 0 /\ HasSlot(a) THEN {Head(q)} ELSE {}

FinallyOnSuccess(a, o) == IF o.kind = "err" THEN a ELSE a - 1
\* finally { activeRequests-- }: runs for either outcome o
Finally(a, o) == a - 1

\* fn() of the tasks in S (at most one) starts running: for an estimate
\* fetch this is the promise executor of fetchFundEstimateFast
Dispatch(S, cd) ==
  LET E == {t \in S : cd[t] # ""} IN
  /\ jsonpInitialized' = (jsonpInitialized \/ E # {})
  /\ timers' = timers \o SeqOf(E)
  /\ pendingRequests' = pendingRequests \o SeqOf(E)
  /\ script' = [t \in Tasks |-> IF t \in E THEN "loading" ELSE script[t]]
  /\ inDom' = inDom \cup E

\* withConcurrencyControl(fn) for task t, whose fund code table is cd
withConcurrencyControl(t, cd) ==
  IF HasSlot(activeRequests)
  THEN /\ activeRequests' = activeRequests + 1
       /\ pc' = [pc EXCEPT ![t] = "running"]
       /\ Dispatch({t}, cd)
       /\ UNCHANGED <<requestQueue, waited>>
  ELSE /\ requestQueue' = Enqueue(requestQueue, t)
       /\ pc' = [pc EXCEPT ![t] = "queued"]
       /\ waited' = [waited EXCEPT ![t] = Len(requestQueue) + 1]
       /\ UNCHANGED activeRequests
       /\ UNCHANGED fetchVars

\* the next call is made by the lowest-numbered task not yet submitted
IsNextCall(t) == pc[t] = "new" /\ \A u \in Tasks : u < t => pc[u] # "new"

\* a caller submits a plain asynchronous task
Submit(t) ==
  /\ microtasks = <<>>
  /\ IsNextCall(t)
  /\ withConcurrencyControl(t, code)
  /\ UNCHANGED <<inner, result, microtasks, code, persisted>>
  /\ UNCHANGED cacheVars
  /\ UNCHANGED jsonpArg
  /\ UNCHANGED histVars

\* the promise returned by a plain task's fn() settles
TaskSettles(t, o) ==
  /\ microtasks = <<>>
  /\ pc[t] = "running"
  /\ code[t] = ""
  /\ inner' = [inner EXCEPT ![t] = o]
  /\ pc' = [pc EXCEPT ![t] = "settled"]
  /\ microtasks' = Append(microtasks, t)
  /\ UNCHANGED <<result, waited, code, persisted>>
  /\ UNCHANGED limiterVars
  /\ UNCHANGED fetchVars
  /\ UNCHANGED cacheVars
  /\ UNCHANGED jsonpArg
  /\ UNCHANGED histVars

\* the rest of `execute` after `await fn()`: resolve / reject, then finally
Continuation(t) ==
  /\ microtasks # <<>>
  /\ t = Head(microtasks)
  /\ microtasks' = Tail(microtasks)
  /\ result' = [result EXCEPT ![t] = inner[t]]
  /\ LET a == Finally(activeRequests, inner[t])
         S == ExecuteNext(a, requestQueue)
     IN /\ activeRequests' = a + Cardinality(S)
        /\ requestQueue' = SelectSeq(requestQueue, LAMBDA x : x \notin S)
        /\ pc' = [x \in Tasks |-> IF x = t THEN "done"
                                  ELSE IF x \in S THEN "running"
                                  ELSE pc[x]]
        /\ Dispatch(S, code)
  /\ UNCHANGED <<inner, waited, code, persisted>>
  /\ UNCHANGED cacheVars
  /\ UNCHANGED jsonpArg
  /\ UNCHANGED histVars

\* ------------------------------------------------------- estimate fetcher
\* resolve(v) / reject(e) of the promise fn() returned: only the first
\* settlement counts, and it schedules the `await` continuation
Settle(r, o) ==
  IF inner[r].kind = "none"
  THEN /\ inner' = [inner EXCEPT ![r] = o]
       /\ pc' = [pc EXCEPT ![r] = "settled"]
       /\ microtasks' = Append(microtasks, r)
  ELSE UNCHANGED <<inner, pc, microtasks>>

\* `if (persisted) resolve(persisted) else reject(new Error(...))`
Fallback(r) ==
  IF persisted[r] # NoData THEN Fulfilled(persisted[r]) ELSE Rejected

\* pendingRequests.findIndex(r => r.code === c)
\* (the first match; 0 stands for -1)
FindPending(c) ==
  LET M == {i \in 1..Len(pendingRequests) : code[pendingRequests[i]] = c}
  IN IF M = {} THEN 0 ELSE CHOOSE i \in M : \A j \in M : i <= j

CacheHitNever(c) == FALSE
\* `const cached = cache.get(cacheKey); if (cached)`
CacheHit(c) == cache[c] # NoData

DegradeWhenTrading(c) == trading /\ persistCache[c] # NoData
\* `!isTradingTime() && persisted`
Degrade(c) == ~trading /\ persistCache[c] # NoData

\* fetchFundEstimateFast(c), called as task r
Call(r, c) ==
  /\ microtasks = <<>>
  /\ IsNextCall(r)
  /\ code' = [code EXCEPT ![r] = c]
  /\ IF CacheHit(c)
     THEN /\ result' = [result EXCEPT ![r] = Fulfilled(cache[c])]
          /\ pc' = [pc EXCEPT ![r] = "done"]
          /\ UNCHANGED <<waited, persisted, cache>>
          /\ UNCHANGED limiterVars
          /\ UNCHANGED fetchVars
     ELSE IF Degrade(c)
     THEN /\ persisted' = [persisted EXCEPT ![r] = persistCache[c]]
          /\ cache' = [cache EXCEPT ![c] = persistCache[c]]
          /\ result' = [result EXCEPT ![r] = Fulfilled(persistCache[c])]
          /\ pc' = [pc EXCEPT ![r] = "done"]
          /\ UNCHANGED waited
          /\ UNCHANGED limiterVars
          /\ UNCHANGED fetchVars
     ELSE /\ persisted' = [persisted EXCEPT ![r] = persistCache[c]]
          /\ withConcurrencyControl(r, code')
          /\ UNCHANGED <<result, cache>>
  /\ UNCHANGED <<inner, microtasks, persistCache, trading>>
  /\ UNCHANGED jsonpArg
  /\ UNCHANGED histVars

\* the 8 s timer of task r fires (timers of equal delay fire in the order set)
TimeoutFires(r) ==
  /\ microtasks = <<>>
  /\ timers # <<>>
  /\ r = Head(timers)
  /\ timers' = Tail(timers)
  /\ inDom' = inDom \ {r}
  /\ pendingRequests' = RemoveAt(pendingRequests, FindPending(code[r]))
  /\ Settle(r, Fallback(r))
  /\ UNCHANGED <<result, waited, code, persisted, script, jsonpInitialized>>
  /\ UNCHANGED limiterVars
  /\ UNCHANGED cacheVars
  /\ UNCHANGED jsonpArg
  /\ UNCHANGED histVars

\* script.onerror of task r
ScriptError(r) ==
  /\ microtasks = <<>>
  /\ script[r] = "loading"
  /\ script' = [script EXCEPT ![r] = "failed"]
  /\ inDom' = inDom \ {r}
  /\ LET idx == FindPending(code[r]) IN
       /\ timers' = IF idx # 0 THEN ClearTimer(timers, pendingRequests[idx])
                    ELSE timers
       /\ pendingRequests' = RemoveAt(pendingRequests, idx)
  /\ Settle(r, Fallback(r))
  /\ UNCHANGED <<result, waited, code, persisted, jsonpInitialized>>
  /\ UNCHANGED limiterVars
  /\ UNCHANGED cacheVars
  /\ UNCHANGED jsonpArg
  /\ UNCHANGED histVars

jsonpgzNoGuard(d) ==
  LET idx == IF pendingRequests = <<>> THEN 0 ELSE 1
  IN IF idx # 0
     THEN LET req == pendingRequests[idx] IN
          /\ timers' = ClearTimer(timers, req)
          /\ pendingRequests' = RemoveAt(pendingRequests, idx)
          /\ cache' = [cache EXCEPT ![code[req]] = d]
          /\ persistCache' = [persistCache EXCEPT ![code[req]] = d]
          /\ Settle(req, Fulfilled(d))
     ELSE UNCHANGED <<timers, pendingRequests, cache, persistCache,
                      inner, pc, microtasks>>
\* window.jsonpgz(d), as far as it changes the fetch layer
jsonpgz(d) ==
  LET idx == IF d = NoData \/ d.fundcode = "" THEN 0 ELSE FindPending(d.fundcode)
  IN IF idx # 0
     THEN LET req == pendingRequests[idx] IN
          /\ timers' = ClearTimer(timers, req)
          /\ pendingRequests' = RemoveAt(pendingRequests, idx)
          /\ cache' = [cache EXCEPT ![code[req]] = d]
          /\ persistCache' = [persistCache EXCEPT ![code[req]] = d]
          /\ Settle(req, Fulfilled(d))
     ELSE UNCHANGED <<timers, pendingRequests, cache, persistCache,
                      inner, pc, microtasks>>

\* what the server may answer to the script request of task r
Answers(r) ==
  {NoData} \cup {Payload(code[r], v) : v \in FreshVals}
           \cup {Payload("", v) : v \in FreshVals}

\* the script of task r arrives: it runs jsonpgz(d), then script.onload
ScriptLoad(r, d) ==
  /\ microtasks = <<>>
  /\ script[r] = "loading"
  /\ jsonpgz(d)
  /\ jsonpArg' = d
  /\ script' = [script EXCEPT ![r] = "loaded"]
  /\ UNCHANGED <<result, waited, code, persisted, inDom, jsonpInitialized,
                 trading>>
  /\ UNCHANGED limiterVars
  /\ UNCHANGED histVars

\* setTimeout(cleanup, 100) set by script.onload of task r fires
DelayedCleanup(r) ==
  /\ microtasks = <<>>
  /\ script[r] = "loaded"
  /\ script' = [script EXCEPT ![r] = "cleaned"]
  /\ inDom' = inDom \ {r}
  /\ UNCHANGED <<pc, inner, result, waited, microtasks, code, persisted,
                 pendingRequests, timers, jsonpInitialized>>
  /\ UNCHANGED limiterVars
  /\ UNCHANGED cacheVars
  /\ UNCHANGED jsonpArg
  /\ UNCHANGED histVars

\* ------------------------------------------------------------ environment
\* the TTL of the live entry of code c elapses (the next get is a miss)
CacheExpires(c) ==
  /\ microtasks = <<>>
  /\ cache[c] # NoData
  /\ cache' = [cache EXCEPT ![c] = NoData]
  /\ UNCHANGED <<pc, inner, result, waited, microtasks, code, persisted,
                 persistCache, trading>>
  /\ UNCHANGED limiterVars
  /\ UNCHANGED fetchVars
  /\ UNCHANGED jsonpArg
  /\ UNCHANGED histVars

\* the market opens or closes
TradingChanges ==
  /\ microtasks = <<>>
  /\ trading' = ~trading
  /\ UNCHANGED <<pc, inner, result, waited, microtasks, code, persisted,
                 cache, persistCache>>
  /\ UNCHANGED limiterVars
  /\ UNCHANGED fetchVars
  /\ UNCHANGED jsonpArg
  /\ UNCHANGED histVars

\* ---------------------------------------------------- net-value history
Fetches == DOMAIN nvScript

\* a live-cache slot: `hit` tells an entry from a miss (an empty list is an
\* entry too)
Miss == [hit |-> FALSE, val |-> <<>>]
Entry(v) == [hit |-> TRUE, val |-> v]

\* what pingzhongdata/<c>.js assigns to Data_netWorthTrend, oldest first;
\* x is the day of the point
TrendOf(c) ==
  IF c = "A"
  THEN <<[x |-> 1, y |-> 10, equityReturn |-> 0],
         [x |-> 2, y |-> 11, equityReturn |-> 10]>>
  ELSE <<[x |-> 1, y |-> 20, equityReturn |-> 0],
         [x |-> 2, y |-> 21, equityReturn |-> 5]>>

\* the default of the `days` parameter
DefaultDays == 30

Reverse(s) == [i \in 1..Len(s) |-> s[Len(s) + 1 - i]]

\* trend.slice(-days)
SliceLast(s, n) ==
  IF Len(s) <= n THEN s ELSE [i \in 1..n |-> s[Len(s) - n + i]]

\* trend.slice(-days).map(...).reverse(): the records, newest first
ToRecords(trend, days) ==
  LET recent == SliceLast(trend, days) IN
  Reverse([i \in 1..Len(recent) |->
             [date |-> recent[i].x,
              netValue |-> recent[i].y,
              totalNetValue |-> recent[i].y,
              changeRate |-> recent[i].equityReturn]])

\* cleanup() of history fetch h: clearTimeout(timeout), remove the element
nvCleanup(h) ==
  /\ nvTimers' = ClearTimer(nvTimers, h)
  /\ nvInDom' = nvInDom \ {h}

\* resolve(v) of the promise of history fetch h (the first call counts)
nvResolve(h, v) ==
  nvResult' = [nvResult EXCEPT ![h] = IF @.kind = "none" THEN Fulfilled(v) ELSE @]

IsNextFetch(h) ==
  nvCode[h] = "" /\ \A g \in Fetches : g < h => nvCode[g] # ""

\* fetchNetValueHistoryFast(c), called as fetch h
HistoryCall(h, c) ==
  /\ IsNextFetch(h)
  /\ nvCode' = [nvCode EXCEPT ![h] = c]
  /\ IF nvCache[c].hit
     THEN /\ nvResult' = [nvResult EXCEPT ![h] = Fulfilled(nvCache[c].val)]
          /\ UNCHANGED <<nvScript, nvTimers, nvInDom>>
     ELSE /\ nvScript' = [nvScript EXCEPT ![h] = "loading"]
          /\ nvTimers' = Append(nvTimers, h)
          /\ nvInDom' = nvInDom \cup {h}
          /\ UNCHANGED nvResult
  /\ UNCHANGED <<nvCache, Data_netWorthTrend>>
  /\ UNCHANGED <<limiterVars, fetchVars, cacheVars, estimateVars>>

\* what the script of fetch h may leave in Data_netWorthTrend: the fund's
\* trend, an empty trend, or (a script without the variable) the old value
Trends(h) == {TrendOf(nvCode[h]), <<>>, Data_netWorthTrend}

\* the script of fetch h arrives: it runs, then script.onload
HistoryLoad(h, trend) ==
  /\ nvScript[h] = "loading"
  /\ nvScript' = [nvScript EXCEPT ![h] = "loaded"]
  /\ Data_netWorthTrend' = trend
  /\ nvCleanup(h)
  /\ IF Len(trend) = 0
     THEN /\ nvResolve(h, <<>>)
          /\ UNCHANGED nvCache
     ELSE /\ nvCache' = [nvCache EXCEPT ![nvCode[h]] =
                            Entry(ToRecords(trend, DefaultDays))]
          /\ nvResolve(h, ToRecords(trend, DefaultDays))
  /\ UNCHANGED nvCode
  /\ UNCHANGED <<limiterVars, fetchVars, cacheVars, estimateVars>>

\* script.onerror of fetch h
HistoryError(h) ==
  /\ nvScript[h] = "loading"
  /\ nvScript' = [nvScript EXCEPT ![h] = "failed"]
  /\ nvCleanup(h)
  /\ nvResolve(h, <<>>)
  /\ UNCHANGED <<nvCode, nvCache, Data_netWorthTrend>>
  /\ UNCHANGED <<limiterVars, fetchVars, cacheVars, estimateVars>>

\* the 15 s timer of fetch h fires
HistoryTimeout(h) ==
  /\ nvTimers # <<>>
  /\ h = Head(nvTimers)
  /\ nvCleanup(h)
  /\ nvResolve(h, <<>>)
  /\ UNCHANGED <<nvCode, nvScript, nvCache, Data_netWorthTrend>>
  /\ UNCHANGED <<limiterVars, fetchVars, cacheVars, estimateVars>>

\* the TTL of the live history entry of code c elapses
HistoryExpires(c) ==
  /\ nvCache[c].hit
  /\ nvCache' = [nvCache EXCEPT ![c] = Miss]
  /\ UNCHANGED <<nvCode, nvScript, nvTimers, nvInDom, nvResult,
                 Data_netWorthTrend>>
  /\ UNCHANGED <<limiterVars, fetchVars, cacheVars, estimateVars>>

InitHistory(n) ==
  /\ nvCode = [h \in 1..n |-> ""]
  /\ nvScript = [h \in 1..n |-> "none"]
  /\ nvTimers = <<>>
  /\ nvInDom = {}
  /\ nvResult = [h \in 1..n |-> Pending]
  /\ nvCache = [c \in Codes |-> Miss]
  /\ Data_netWorthTrend = <<>>

InitBatch ==
  /\ batchCodes = <<>>
  /\ batchTasks = <<>>
  /\ batchState = "idle"
  /\ collected = {}
  /\ results = [c \in Codes |-> NoData]

InitIndex(n) ==
  /\ ixKey = [i \in 1..n |-> ""]
  /\ ixState = [i \in 1..n |-> "new"]
  /\ ixResp = [i \in 1..n |-> [is |-> "none", diff |-> <<>>]]
  /\ ixResult = [i \in 1..n |-> [kind |-> "none", val |-> <<>>]]
  /\ ixTimers = <<>>
  /\ ixCache = [k \in {"market_indices", "ranking_1_30", "ranking_0_30",
                       "global_indices"} |-> [hit |-> FALSE, val |-> <<>>]]

\* a cacheKey `<prefix>_<code>` (days = 0) or `<prefix>_<code>_<days>`
Key(p, c, d) == [prefix |-> p, code |-> c, days |-> d]
NoKey == Key("", "", 0)

\* a value of a pingzhongdata fetcher: Nothing is `undefined`
Val(k, c) == [is |-> k, code |-> c]
Nothing == Val("none", "")

InitLoader(n) ==
  /\ ldKey = [l \in 1..n |-> NoKey]
  /\ ldScript = [l \in 1..n |-> "none"]
  /\ ldPayload = [l \in 1..n |-> "none"]
  /\ ldResult = [l \in 1..n |-> [kind |-> "none", val |-> Nothing]]
  /\ ldTimers = <<>>
  /\ ldCache = [k \in {Key("netvalue", c, d) : c \in Codes, d \in {30, 120}}
                     \cup {Key(p, c, 0) :
                             p \in {"manager", "manager_profit", "industry",
                                    "asset", "rating"},
                             c \in Codes} |-> Nothing]
  /\ pingzhong = Nothing
  /\ lastCleared = ""

InitPeriod ==
  /\ prHistory = <<>>
  /\ prResult = <<>>
  /\ prFrom = "none"
  /\ prCache = [hit |-> FALSE, val |-> <<>>]

InitKLine(n) ==
  /\ klCode = [h \in 1..n |-> ""]
  /\ klResult = [h \in 1..n |-> Pending]
  /\ klCache = [c \in Codes |-> [hit |-> FALSE, val |-> <<>>]]

InitOther ==
  InitBatch /\ InitIndex(MaxIdx) /\ InitLoader(MaxLoads) /\ InitPeriod

\* the Search view, with the watchlist w restored from storage
InitWatch(w) ==
  /\ watchlist = w
  /\ toast = "none"
  /\ adding = <<>>
  /\ addFundCalls = 0
  /\ lastFund = ""
  /\ addSeq = 0

\* the chart component after setup(), with props.realtimeValue = rv and
\* props.lastClose = lc and no fund code yet: the immediate fundCode watcher
\* (2163-2166) has run resetIntradayData, and loadData has returned at once
InitChart(rv, lc) ==
  /\ fundCode = ""
  /\ realtimeValue = rv
  /\ lastClose = lc
  /\ chartData = NoRows
  /\ periodReturns = NoRows
  /\ isLoading = FALSE
  /\ chLoads = [l \in 1..MaxChart |->
                 [code |-> "", st |-> "new", kline |-> NoRows, returns |-> NoRows]]
  /\ activePeriod = "5d"
  /\ spStep = "idle"
  /\ spKey = ""
  /\ tickQueue = <<>>
  /\ intradayData = <<>>
  /\ baseValue = lc
  /\ clock = 0
  /\ mounted = "setup"
  /\ canvasRef = FALSE
  /\ resizeObserver = FALSE
  /\ animationFrame = 0
  /\ frames = {}
  /\ startTimer = FALSE
  /\ retryTimers = 0
  /\ chartOp = "setup"

\* Home with the watchlist restored and no estimate fetched yet
InitHome ==
  /\ homeList = [c \in Codes |-> [estimateValue |-> "", estimateChange |-> ""]]
  /\ checks = [c \in Codes |-> 0]
  /\ fired = [c \in Codes |-> 0]

\* the filter view after setup()
InitFilter ==
  /\ fundType = ""
  /\ sortBy = "dayReturn"
  /\ minReturn = ""
  /\ fundList = <<>>
  /\ isLoadingFunds = FALSE
  /\ isRefreshing = FALSE
  /\ hasMore = TRUE
  /\ page = 1
  /\ loading = NoLoad
  /\ applied = FALSE
  /\ filterToast = "none"

\* the search view after setup(), opened without a query
InitSearch ==
  /\ keyword = ""
  /\ searchResults = <<>>
  /\ isSearching = FALSE
  /\ searchTimer = NoTimer
  /\ searches = [s \in 1..MaxSearch |-> [kw |-> "", st |-> "new"]]
  /\ searchToast = "none"

InitView == InitChart(0, 0) /\ InitHome /\ InitFilter /\ InitSearch

InitExt == InitOther /\ InitView /\ InitKLine(0) /\ InitWatch(<<>>)

InitTasks(n) ==
  /\ activeRequests = 0
  /\ requestQueue = <<>>
  /\ pc = [t \in 1..n |-> "new"]
  /\ inner = [t \in 1..n |-> Pending]
  /\ result = [t \in 1..n |-> Pending]
  /\ waited = [t \in 1..n |-> 0]
  /\ microtasks = <<>>
  /\ code = [t \in 1..n |-> ""]
  /\ persisted = [t \in 1..n |-> NoData]
  /\ pendingRequests = <<>>
  /\ timers = <<>>
  /\ script = [t \in 1..n |-> "none"]
  /\ inDom = {}
  /\ jsonpInitialized = FALSE
  /\ jsonpArg = NoData
  /\ cache = [c \in Codes |-> NoData]

LimiterInit ==
  /\ InitExt
  /\ InitTasks(MaxTasks)
  /\ InitHistory(0)
  /\ persistCache = [c \in Codes |-> NoData]
  /\ trading = TRUE

LimiterNext ==
  \/ (\E t \in Tasks : Submit(t)) /\ UNCHANGED extVars
  \/ (\E t \in Tasks : TaskSettles(t, Fulfilled(NoData))) /\ UNCHANGED extVars
  \/ (\E t \in Tasks : TaskSettles(t, Rejected)) /\ UNCHANGED extVars
  \/ (\E t \in Tasks : Continuation(t)) /\ UNCHANGED extVars

LimiterSpec == LimiterInit /\ [][LimiterNext]_vars

Init ==
  /\ InitExt
  /\ InitTasks(MaxReq)
  /\ InitHistory(0)
  /\ persistCache \in {[c \in Codes |-> IF c \in S THEN Stale(c) ELSE NoData] : S \in SUBSET Codes}
  /\ trading \in BOOLEAN

Next ==
  \/ (\E r \in Tasks, c \in Codes : Call(r, c)) /\ UNCHANGED extVars
  \/ (\E r \in Tasks : TimeoutFires(r)) /\ UNCHANGED extVars
  \/ (\E r \in Tasks : ScriptError(r)) /\ UNCHANGED extVars
  \/ (\E r \in Tasks : \E d \in Answers(r) : ScriptLoad(r, d)) /\ UNCHANGED extVars
  \/ (\E r \in Tasks : DelayedCleanup(r)) /\ UNCHANGED extVars
  \/ (\E r \in Tasks : Continuation(r)) /\ UNCHANGED extVars
  \/ (\E c \in Codes : CacheExpires(c)) /\ UNCHANGED extVars
  \/ (TradingChanges) /\ UNCHANGED extVars

Spec == Init /\ [][Next]_vars

\* the funds whose history the calls of ScriptSpec ask for
ScriptCodes == {"A"}

\* what the event loop and the network guarantee: a queued microtask runs,
\* a live timer fires, a script request ends in onload or onerror
Fairness ==
  /\ \A r \in 1..MaxReq : WF_vars(Continuation(r) /\ UNCHANGED extVars)
  /\ \A r \in 1..MaxReq : WF_vars(TimeoutFires(r) /\ UNCHANGED extVars)
  /\ \A r \in 1..MaxReq :
       WF_vars((ScriptError(r) \/ \E d \in Answers(r) : ScriptLoad(r, d))
                 /\ UNCHANGED extVars)
  /\ \A r \in 1..MaxReq : WF_vars(DelayedCleanup(r) /\ UNCHANGED extVars)

FairSpec == Spec /\ Fairness

ScriptInit ==
  /\ InitExt
  /\ InitTasks(0)
  /\ InitHistory(MaxScripts)
  /\ persistCache = [c \in Codes |-> NoData]
  /\ trading = TRUE

ScriptNext ==
  \/ (\E h \in Fetches, c \in ScriptCodes : HistoryCall(h, c)) /\ UNCHANGED extVars
  \/ (\E h \in Fetches : \E trend \in Trends(h) : HistoryLoad(h, trend)) /\ UNCHANGED extVars
  \/ (\E h \in Fetches : HistoryError(h)) /\ UNCHANGED extVars
  \/ (\E h \in Fetches : HistoryTimeout(h)) /\ UNCHANGED extVars
  \/ (\E c \in ScriptCodes : HistoryExpires(c)) /\ UNCHANGED extVars

ScriptSpec == ScriptInit /\ [][ScriptNext]_vars
\* ------------------------------------------------- fetchFundEstimatesBatch
\* The call fans out synchronously: its per-code calls are consecutive
\* steps during which (batchState = "fanout") nothing else runs.
BatchSet == {batchTasks[i] : i \in 1..Len(batchTasks)}

\* wrappers whose awaited fetch has settled and whose continuation is due
Due == {r \in BatchSet : r \notin collected /\ result[r] # Pending}

\* no batch call is fanning out and no wrapper continuation is queued
BatchQuiet == batchState # "fanout" /\ Due = {}

WrapperNoCatch(o) == IF o.kind = "err" THEN Rejected ELSE Fulfilled(NoData)
\* outcome of `async code => { try { ... } catch { } }` when the fetch it
\* awaits ends with outcome o
Wrapper(o) == Fulfilled(NoData)

\* the possible `codes` arguments
BatchArgs == UNION {[1..n -> Codes] : n \in 1..MaxReq}

\* fetchFundEstimatesBatch(cs): new Map(), then the first call of codes.map
BatchStart(r, cs) ==
  /\ batchState = "idle"
  /\ Len(cs) <= Cardinality({t \in Tasks : pc[t] = "new"})
  /\ Call(r, cs[1])
  /\ batchCodes' = cs
  /\ batchTasks' = <<r>>
  /\ batchState' = IF Len(cs) = 1 THEN "waiting" ELSE "fanout"
  /\ UNCHANGED <<collected, results>>

\* the next call of codes.map
BatchNextCall(r) ==
  /\ batchState = "fanout"
  /\ Call(r, batchCodes[Len(batchTasks) + 1])
  /\ batchTasks' = Append(batchTasks, r)
  /\ batchState' = IF Len(batchTasks) + 1 = Len(batchCodes)
                   THEN "waiting" ELSE "fanout"
  /\ UNCHANGED <<batchCodes, collected, results>>

\* the wrapper of call r resumes after `await fetchFundEstimateFast(code)`:
\* results.set or the empty catch; Promise.all settles with the last one
BatchCollect(r) ==
  /\ batchState \in {"waiting", "rejected"}
  /\ microtasks = <<>>
  /\ r \in Due
  /\ \A u \in Due : r <= u
  /\ collected' = collected \cup {r}
  /\ results' = IF result[r].kind = "ok"
                THEN [results EXCEPT ![code[r]] = result[r].val]
                ELSE results
  /\ batchState' = IF Wrapper(result[r]).kind = "err" THEN "rejected"
                   ELSE IF batchState = "waiting" /\ collected' = BatchSet
                   THEN "resolved"
                   ELSE batchState
  /\ UNCHANGED <<batchCodes, batchTasks>>
  /\ UNCHANGED <<limiterVars, fetchVars, cacheVars, estimateVars, histVars>>

BatchNext ==
  \/ (\E r \in Tasks, cs \in BatchArgs : BatchStart(r, cs))
       /\ UNCHANGED notBatch
  \/ (\E r \in Tasks : BatchNextCall(r)) /\ UNCHANGED notBatch
  \/ (\E r \in Tasks : BatchCollect(r)) /\ UNCHANGED notBatch
  \/ BatchQuiet /\ (\E r \in Tasks : TimeoutFires(r)) /\ UNCHANGED extVars
  \/ BatchQuiet /\ (\E r \in Tasks : ScriptError(r)) /\ UNCHANGED extVars
  \/ BatchQuiet /\ (\E r \in Tasks : \E d \in Answers(r) : ScriptLoad(r, d))
       /\ UNCHANGED extVars
  \/ BatchQuiet /\ (\E r \in Tasks : DelayedCleanup(r)) /\ UNCHANGED extVars
  \/ BatchQuiet /\ (\E r \in Tasks : Continuation(r)) /\ UNCHANGED extVars
  \/ BatchQuiet /\ (\E c \in Codes : CacheExpires(c)) /\ UNCHANGED extVars
  \/ BatchQuiet /\ TradingChanges /\ UNCHANGED extVars

BatchSpec == Init /\ [][BatchNext]_vars

\* ------------------------------------ market indices, ranking, global indices
\* fetchMarketIndicesFast, fetchFundRankingFast (fetch + JSON) and
\* fetchGlobalIndices (JSONP with a callback of its own).  An element of
\* data.data.diff is kept as its f2 field; NullItem is a null element.
IndexKeys == {"market_indices", "ranking_1_30", "ranking_0_30", "global_indices"}
NullItem == -1
Items == {NullItem, 0, 100}
Diffs == UNION {[1..n -> Items] : n \in 0..MaxDiff}

\* what the server may answer: fetch() rejects ("fail"), the body is not
\* JSON / not a call of the callback ("html"), data.data.diff is missing
\* ("nodiff"), is not an array ("objdiff"), or is the array diff
Resp(k, d) == [is |-> k, diff |-> d]
NoResp == Resp("none", <<>>)
Responses == {Resp(k, <<>>) : k \in {"fail", "html", "nodiff", "objdiff"}}
               \cup {Resp("diff", d) : d \in Diffs}

IxPending == [kind |-> "none", val |-> <<>>]
IxFulfilled(v) == [kind |-> "ok", val |-> v]

\* getDefaultGlobalIndices(): six entries, price 0 each
getDefaultGlobalIndices == [i \in 1..6 |-> 0]
\* const indices = [...] of fetchGlobalIndices
NumIndices == 8

\* data.data.diff.map(item => ({ ..., current: item.f2, ... })): throws on a
\* null element
MapThrows(d) == \E i \in 1..Len(d) : d[i] = NullItem

\* what `try { const data = ...; return } catch { return [] }` returns, and
\* whether cache.set ran
FetchReturn(resp) ==
  IF resp.is \in {"fail", "html", "nodiff", "objdiff"} \/ MapThrows(resp.diff)
  THEN [val |-> <<>>, set |-> FALSE]
  ELSE [val |-> resp.diff, set |-> TRUE]

\* data.data.diff.forEach((item, idx) => { if (indices[idx] && item.f2 > 0)
\* results.push({ price: item.f2 / 100, ... }) }) inside try/catch: the
\* elements pushed before a throw stay in results
RECURSIVE PushEach(_, _, _)
PushEach(d, idx, res) ==
  IF idx > Len(d) \/ d[idx] = NullItem THEN res
  ELSE IF idx <= NumIndices /\ d[idx] > 0
       THEN PushEach(d, idx + 1, Append(res, d[idx] \div 100))
       ELSE PushEach(d, idx + 1, res)

CallbackResults(resp) ==
  IF resp.is = "diff" THEN PushEach(resp.diff, 1, <<>>) ELSE <<>>

\* the code after `await new Promise(...)` of fetchGlobalIndices
GlobalReturn(res) ==
  IF Len(res) = 0 THEN [val |-> getDefaultGlobalIndices, set |-> FALSE]
  ELSE [val |-> res, set |-> TRUE]

IndexCalls == DOMAIN ixState

IxFinish(i, resp, ret) ==
  /\ ixState' = [ixState EXCEPT ![i] = "done"]
  /\ ixResp' = [ixResp EXCEPT ![i] = resp]
  /\ ixResult' = [ixResult EXCEPT ![i] = IxFulfilled(ret.val)]
  /\ ixCache' = IF ret.set THEN [ixCache EXCEPT ![ixKey[i]] = Entry(ret.val)]
                ELSE ixCache

\* a call of one of the three functions, k being its cacheKey
IndexCall(i, k) ==
  /\ ixState[i] = "new"
  /\ \A j \in IndexCalls : j < i => ixState[j] # "new"
  /\ ixKey' = [ixKey EXCEPT ![i] = k]
  /\ IF ixCache[k].hit
     THEN /\ ixState' = [ixState EXCEPT ![i] = "done"]
          /\ ixResult' = [ixResult EXCEPT ![i] = IxFulfilled(ixCache[k].val)]
          /\ UNCHANGED ixTimers
     ELSE /\ ixState' = [ixState EXCEPT ![i] = "fetching"]
          /\ ixTimers' = IF k = "global_indices" THEN Append(ixTimers, i)
                         ELSE ixTimers
          /\ UNCHANGED ixResult
  /\ UNCHANGED <<ixResp, ixCache>>

\* fetch(url) / response.json() settle for a market or ranking call
FetchResponds(i, resp) ==
  /\ ixState[i] = "fetching"
  /\ ixKey[i] # "global_indices"
  /\ IxFinish(i, resp, FetchReturn(resp))
  /\ UNCHANGED <<ixKey, ixTimers>>

\* window[callbackName](data)
GlobalCallback(i, resp) ==
  /\ ixState[i] = "fetching"
  /\ ixKey[i] = "global_indices"
  /\ resp.is \in {"nodiff", "objdiff", "diff"}
  /\ ixTimers' = ClearTimer(ixTimers, i)
  /\ IxFinish(i, resp, GlobalReturn(CallbackResults(resp)))
  /\ UNCHANGED ixKey

\* script.onerror of fetchGlobalIndices
GlobalError(i) ==
  /\ ixState[i] = "fetching"
  /\ ixKey[i] = "global_indices"
  /\ ixTimers' = ClearTimer(ixTimers, i)
  /\ IxFinish(i, Resp("fail", <<>>), GlobalReturn(<<>>))
  /\ UNCHANGED ixKey

\* the 8 s timeout of fetchGlobalIndices (also how a body that never calls
\* the callback ends)
GlobalTimeout(i) ==
  /\ ixTimers # <<>> /\ Head(ixTimers) = i
  /\ ixTimers' = Tail(ixTimers)
  /\ IxFinish(i, Resp("html", <<>>), GlobalReturn(<<>>))
  /\ UNCHANGED ixKey

\* the TTL of an entry runs out
IndexExpires(k) ==
  /\ ixCache[k].hit
  /\ ixCache' = [ixCache EXCEPT ![k] = Miss]
  /\ UNCHANGED <<ixKey, ixState, ixResp, ixResult, ixTimers>>

IndexNext ==
  \/ (\E i \in IndexCalls, k \in IndexKeys : IndexCall(i, k)) /\ UNCHANGED notIndex
  \/ (\E i \in IndexCalls, resp \in Responses : FetchResponds(i, resp))
       /\ UNCHANGED notIndex
  \/ (\E i \in IndexCalls, resp \in Responses : GlobalCallback(i, resp))
       /\ UNCHANGED notIndex
  \/ (\E i \in IndexCalls : GlobalError(i)) /\ UNCHANGED notIndex
  \/ (\E i \in IndexCalls : GlobalTimeout(i)) /\ UNCHANGED notIndex
  \/ (\E k \in IndexKeys : IndexExpires(k)) /\ UNCHANGED notIndex

\* nothing called yet, empty live caches
IndexInit ==
  /\ InitExt
  /\ InitTasks(0)
  /\ InitHistory(0)
  /\ persistCache = [c \in Codes |-> NoData]
  /\ trading = TRUE

IndexSpec == IndexInit /\ [][IndexNext]_vars

\* ----------------------------------------------- the pingzhongdata fetchers
\* fetchNetValueHistoryFast, fetchFundManagerInfo, fetchManagerProfit,
\* fetchIndustryAllocation, fetchAssetAllocation and fetchFundRating load
\* https://fund.eastmoney.com/pingzhongdata/<code>.js in a script element
\* and read the window.Data_* globals the file defines.  The values are
\* kept as tokens: Val("data", c) is the value computed from the data of
\* fund c, Val("empty", "") is [] or null, Val("default", "") the object a
\* fetcher builds from its defaults.
Loads == DOMAIN ldScript
Prefixes == {"netvalue", "manager", "manager_profit", "industry", "asset",
             "rating"}
\* the `days` arguments of fetchNetValueHistoryFast
Days == {30, 120}
\* the fund whose data the calls of LoaderSpec ask for
LoaderCodes == {"A"}
LoaderKeys == {k \in DOMAIN ldCache : k.code \in LoaderCodes}

EmptyVal == Val("empty", "")
DefaultVal == Val("default", "")

LdPending == [kind |-> "none", val |-> Nothing]
LdFulfilled(v) == [kind |-> "ok", val |-> v]

\* what a file may hold: the globals of its fund ("data"), globals that are
\* empty collections ("empty"), globals of an unexpected shape ("bad"), or
\* none of the globals ("missing")
Payloads == {"data", "empty", "bad", "missing"}

\* the delay of setTimeout
Delay(p) == IF p \in {"netvalue", "manager"} THEN 15000 ELSE 10000

\* cleanup(): clearTimeout(timeout)
LdClear(l) == SelectSeq(ldTimers, LAMBDA x : x # l)

\* the try block of script.onload, w being the globals: the value resolved
\* and whether cache.set ran
Parse(p, w) ==
  CASE w.is = "bad" -> [val |-> EmptyVal, set |-> FALSE]
    [] w.is = "data" -> [val |-> w, set |-> TRUE]
    [] w.is = "none" ->
         IF p = "rating" THEN [val |-> DefaultVal, set |-> TRUE]
         ELSE [val |-> EmptyVal, set |-> FALSE]
    [] w.is = "empty" ->
         IF p \in {"rating", "asset"} THEN [val |-> DefaultVal, set |-> TRUE]
         ELSE IF p = "industry" THEN [val |-> EmptyVal, set |-> TRUE]
         ELSE [val |-> EmptyVal, set |-> FALSE]

\* resolve(v) of the promise of call l
LdResolve(l, v) ==
  IF ldResult[l] = LdPending THEN [ldResult EXCEPT ![l] = LdFulfilled(v)]
  ELSE ldResult

\* a call of one of the six fetchers, k being its cacheKey; `if (cached)`
\* takes every stored value
LoaderCall(l, k) ==
  /\ ldScript[l] = "none" /\ ldResult[l] = LdPending
  /\ \A j \in Loads : j < l => ldKey[j] # NoKey
  /\ ldKey' = [ldKey EXCEPT ![l] = k]
  /\ IF ldCache[k] # Nothing
     THEN /\ ldResult' = [ldResult EXCEPT ![l] = LdFulfilled(ldCache[k])]
          /\ UNCHANGED <<ldScript, ldTimers>>
     ELSE /\ ldScript' = [ldScript EXCEPT ![l] = "loading"]
          /\ ldTimers' = Append(ldTimers, l)
          /\ UNCHANGED ldResult
  /\ lastCleared' = ""
  /\ UNCHANGED <<ldPayload, ldCache, pingzhong>>

\* the file runs and script.onload follows
LoaderLoad(l, f) ==
  /\ ldScript[l] = "loading"
  /\ ldScript' = [ldScript EXCEPT ![l] = "loaded"]
  /\ ldPayload' = [ldPayload EXCEPT ![l] = f]
  /\ pingzhong' = IF f = "missing" THEN pingzhong
                  ELSE Val(f, IF f = "data" THEN ldKey[l].code ELSE "")
  /\ ldTimers' = LdClear(l)
  /\ LET ret == Parse(ldKey[l].prefix, pingzhong')
     IN  /\ ldCache' = IF ret.set THEN [ldCache EXCEPT ![ldKey[l]] = ret.val]
                       ELSE ldCache
         /\ ldResult' = LdResolve(l, ret.val)
  /\ lastCleared' = ""
  /\ UNCHANGED ldKey

\* script.onerror
LoaderError(l) ==
  /\ ldScript[l] = "loading"
  /\ ldScript' = [ldScript EXCEPT ![l] = "failed"]
  /\ ldTimers' = LdClear(l)
  /\ ldResult' = LdResolve(l, EmptyVal)
  /\ lastCleared' = ""
  /\ UNCHANGED <<ldKey, ldPayload, ldCache, pingzhong>>

\* the timeout of call l; timers of equal delay fire in the order set
LoaderTimeout(l) ==
  /\ \E n \in 1..Len(ldTimers) :
       /\ ldTimers[n] = l
       /\ \A m \in 1..(n - 1) :
            Delay(ldKey[ldTimers[m]].prefix) > Delay(ldKey[l].prefix)
  /\ ldTimers' = LdClear(l)
  /\ ldResult' = LdResolve(l, EmptyVal)
  /\ lastCleared' = ""
  /\ UNCHANGED <<ldKey, ldScript, ldPayload, ldCache, pingzhong>>

\* the TTL of an entry runs out
LoaderExpires(k) ==
  /\ ldCache[k] # Nothing
  /\ ldCache' = [ldCache EXCEPT ![k] = Nothing]
  /\ lastCleared' = ""
  /\ UNCHANGED <<ldKey, ldScript, ldPayload, ldResult, ldTimers, pingzhong>>

\* the keys clearFundCache(c) passes to cache.delete
ClearedAll(c) == {k \in DOMAIN ldCache : k.code = c}
Cleared(c) ==
  {k \in DOMAIN ldCache :
     /\ k.code = c
     /\ k.prefix \in {"estimate", "netvalue", "kline", "period"}
     /\ k.days \in {30, 60, 90, 180, 365, 400} \cup {0}}

clearFundCache(c) ==
  /\ ldCache' = [k \in DOMAIN ldCache |->
                   IF k \in Cleared(c) THEN Nothing ELSE ldCache[k]]
  /\ lastCleared' = c
  /\ UNCHANGED <<ldKey, ldScript, ldPayload, ldResult, ldTimers, pingzhong>>

LoaderNext ==
  \/ (\E l \in Loads, k \in LoaderKeys : LoaderCall(l, k)) /\ UNCHANGED notLoader
  \/ (\E l \in Loads, f \in Payloads : LoaderLoad(l, f)) /\ UNCHANGED notLoader
  \/ (\E l \in Loads : LoaderError(l)) /\ UNCHANGED notLoader
  \/ (\E l \in Loads : LoaderTimeout(l)) /\ UNCHANGED notLoader
  \/ (\E k \in LoaderKeys : LoaderExpires(k)) /\ UNCHANGED notLoader
  \/ (\E c \in Codes : clearFundCache(c)) /\ UNCHANGED notLoader

LoaderSpec == IndexInit /\ [][LoaderNext]_vars

\* --------------------------------------------------- calculatePeriodReturns
\* A NetValueRecord is kept as [age, nv]: age is the whole number of days
\* from new Date(record.date) to now, nv is netValue in hundredths.
Ages == {0, 8, 31, 100, 200, 400}
NetValues == {0, 100, 110}
Rec(a, v) == [age |-> a, nv |-> v]

\* the histories fetchNetValueHistoryFast(code, 400) may give: newest first
Histories ==
  {h \in UNION {[1..n -> [age : Ages, nv : NetValues]] : n \in 0..MaxHist} :
     \A i \in 1..(Len(h) - 1) : h[i].age < h[i + 1].age}

\* const periods = [...]: the days of each, in order
Periods == <<7, 30, 90, 180, 365>>

\* parseFloat((((l - f) / f) * 100).toFixed(2)), in hundredths of a percent
Change(l, f) ==
  LET n == (l - f) * 10000
  IN  IF n >= 0 THEN (2 * n + f) \div (2 * f)
      ELSE 0 - ((2 * (0 - n) + f) \div (2 * f))

\* for (const record of history) { if (recordDate <= targetDate) { found =
\* record; break } }: the index of found, 0 for null
FoundOldest(history, days) ==
  LET S == {i \in 1..Len(history) : history[i].age >= days}
  IN  IF S = {} THEN 0 ELSE CHOOSE i \in S : \A j \in S : j <= i
Found(history, days) ==
  LET S == {i \in 1..Len(history) : history[i].age >= days}
  IN  IF S = {} THEN 0 ELSE CHOOSE i \in S : \A j \in S : i <= j

\* the loop over periods, from the p-th period on
RECURSIVE PeriodLoop(_, _, _)
PeriodLoop(history, p, res) ==
  IF p > Len(Periods) THEN res
  ELSE LET f == Found(history, Periods[p])
       IN  IF f # 0 /\ history[f].nv > 0
           THEN PeriodLoop(history, p + 1,
                  Append(res, [days |-> Periods[p],
                               change |-> Change(history[1].nv, history[f].nv)]))
           ELSE PeriodLoop(history, p + 1, res)

\* the part of calculatePeriodReturns after the await: the value returned
\* and whether cache.set ran
PeriodReturns(history) ==
  IF Len(history) < 2 THEN [val |-> <<>>, set |-> FALSE]
  ELSE IF history[1].nv <= 0 THEN [val |-> <<>>, set |-> FALSE]
  ELSE [val |-> PeriodLoop(history, 1, <<>>), set |-> TRUE]

\* a call of calculatePeriodReturns: the cached value, or else the value
\* computed from the history that fetchNetValueHistoryFast(code, 400) gives
calculatePeriodReturns ==
  IF prCache.hit
  THEN /\ prResult' = prCache.val
       /\ prFrom' = "cache"
       /\ prHistory' = <<>>
       /\ UNCHANGED prCache
  ELSE \E history \in Histories :
         LET ret == PeriodReturns(history)
         IN  /\ prHistory' = history
             /\ prResult' = ret.val
             /\ prFrom' = "history"
             /\ prCache' = IF ret.set THEN Entry(ret.val) ELSE prCache

\* the TTL of period_<code> runs out
PeriodExpires ==
  /\ prCache.hit
  /\ prCache' = Miss
  /\ UNCHANGED <<prHistory, prResult, prFrom>>

PeriodNext ==
  \/ calculatePeriodReturns /\ UNCHANGED notPeriod
  \/ PeriodExpires /\ UNCHANGED notPeriod

PeriodSpec == IndexInit /\ [][PeriodNext]_vars

\* ------------------------------------------------------ fetchSimpleKLineData
\* Call h is a fetchSimpleKLineData call (klCode[h] # "") or a direct
\* fetchNetValueHistoryFast call; a K-line call awaits the history fetch h.
\* Both pass the same `days`, here DefaultDays.
KLineNoReverse(history) ==
  [i \in 1..Len(history) |->
     [time |-> history[i].date, value |-> history[i].netValue,
      change |-> history[i].changeRate]]
\* history.map(item => ({ time, value, change })).reverse()
KLineOf(history) ==
  Reverse([i \in 1..Len(history) |->
             [time |-> history[i].date, value |-> history[i].netValue,
              change |-> history[i].changeRate]])

\* the code after `await fetchNetValueHistoryFast(code, days)`, run as soon
\* as the history promise of call h is fulfilled
KLineResume(h) ==
  IF klCode'[h] # "" /\ klResult[h] = Pending /\ nvResult'[h] # Pending
  THEN /\ klResult' = [klResult EXCEPT ![h] = Fulfilled(KLineOf(nvResult'[h].val))]
       /\ klCache' = [klCache EXCEPT ![klCode'[h]] =
                         Entry(KLineOf(nvResult'[h].val))]
  ELSE UNCHANGED <<klResult, klCache>>

\* fetchSimpleKLineData(c), called as call h
fetchSimpleKLineData(h, c) ==
  /\ klCode' = [klCode EXCEPT ![h] = c]
  /\ IF klCache[c].hit
     THEN /\ IsNextFetch(h)
          /\ klResult' = [klResult EXCEPT ![h] = Fulfilled(klCache[c].val)]
          /\ nvCode' = [nvCode EXCEPT ![h] = c]
          /\ UNCHANGED <<nvScript, nvTimers, nvInDom, nvResult, nvCache,
                         Data_netWorthTrend, klCache>>
          /\ UNCHANGED <<limiterVars, fetchVars, cacheVars, estimateVars>>
     ELSE /\ HistoryCall(h, c)
          /\ KLineResume(h)

\* the TTL of the K-line entry of code c elapses
KLineExpires(c) ==
  /\ klCache[c].hit
  /\ klCache' = [klCache EXCEPT ![c] = Miss]
  /\ UNCHANGED <<klCode, klResult>>
  /\ UNCHANGED coreVars

KLineNext ==
  \/ (\E h \in Fetches, c \in Codes : fetchSimpleKLineData(h, c))
       /\ UNCHANGED notKLine
  \/ (\E h \in Fetches, c \in Codes : HistoryCall(h, c))
       /\ UNCHANGED klineVars /\ UNCHANGED notKLine
  \/ (\E h \in Fetches : \E trend \in Trends(h) :
        HistoryLoad(h, trend) /\ UNCHANGED klCode /\ KLineResume(h))
       /\ UNCHANGED notKLine
  \/ (\E h \in Fetches : HistoryError(h) /\ UNCHANGED klCode /\ KLineResume(h))
       /\ UNCHANGED notKLine
  \/ (\E h \in Fetches : HistoryTimeout(h) /\ UNCHANGED klCode /\ KLineResume(h))
       /\ UNCHANGED notKLine
  \/ (\E c \in Codes : HistoryExpires(c)) /\ UNCHANGED klineVars
       /\ UNCHANGED notKLine
  \/ (\E c \in Codes : KLineExpires(c)) /\ UNCHANGED notKLine

KLineInit ==
  /\ InitOther
  /\ InitView
  /\ InitWatch(<<>>)
  /\ InitKLine(MaxKl)
  /\ InitTasks(0)
  /\ InitHistory(MaxKl)
  /\ persistCache = [c \in Codes |-> NoData]
  /\ trading = TRUE

KLineSpec == KLineInit /\ [][KLineNext]_vars

\* ------------------------------------------------------ Search.vue handleAdd
\* The fund store (stores/fund) keeps the watchlist; addFund appends the
\* fund and settles later, after its first estimate fetch.
WatchCodes == {"A", "B", "C"}

\* the watchlists storage may hold: no code twice
Watchlists ==
  {w \in UNION {[1..n -> WatchCodes] : n \in 0..Cardinality(WatchCodes)} :
     \A i, j \in 1..Len(w) : w[i] = w[j] => i = j}

\* fundStore.isFundInWatchlist(c)
isFundInWatchlist(c) == \E i \in 1..Len(watchlist) : watchlist[i] = c

\* fundStore.addFund(c, name), up to its first await
addFund(c) ==
  /\ watchlist' = IF isFundInWatchlist(c) THEN watchlist ELSE Append(watchlist, c)
  /\ adding' = Append(adding, c)
  /\ addFundCalls' = addFundCalls + 1

handleAddNoCheck(fund) ==
  /\ lastFund' = fund
  /\ addSeq' = 1 - addSeq
  /\ toast' = "loading"
  /\ addFund(fund)
\* handleAdd(fund) up to its await; the toasts are "duplicate" (line 112),
\* "loading" (115), "success" (121) and "failed" (124)
handleAdd(fund) ==
  /\ lastFund' = fund
  /\ addSeq' = 1 - addSeq
  /\ IF isFundInWatchlist(fund)
     THEN /\ toast' = "duplicate"
          /\ UNCHANGED <<watchlist, adding, addFundCalls>>
     ELSE /\ toast' = "loading"
          /\ addFund(fund)

\* the promise of the n-th pending addFund call settles and handleAdd resumes
AddFundSettles(n, ok) ==
  /\ n \in 1..Len(adding)
  /\ adding' = RemoveAt(adding, n)
  /\ toast' = IF ok THEN "success" ELSE "failed"
  /\ UNCHANGED <<watchlist, addFundCalls, lastFund, addSeq>>

WatchNext ==
  \/ (\E fund \in WatchCodes : handleAdd(fund)) /\ UNCHANGED notWatch
  \/ (\E n \in 1..Cardinality(WatchCodes) : AddFundSettles(n, TRUE))
       /\ UNCHANGED notWatch
  \/ (\E n \in 1..Cardinality(WatchCodes) : AddFundSettles(n, FALSE))
       /\ UNCHANGED notWatch

WatchInit ==
  /\ InitOther
  /\ InitView
  /\ InitKLine(0)
  /\ \E w \in Watchlists : InitWatch(w)
  /\ InitTasks(0)
  /\ InitHistory(0)
  /\ persistCache = [c \in Codes |-> NoData]
  /\ trading = TRUE

WatchSpec == WatchInit /\ [][WatchNext]_vars

\* ------------------------------------------------------ the chart component
\* the keys of `periods` the buttons offer; every key but '1d' is a k-line
\* period and is handled alike
PeriodKeys == {"1d", "5d"}
\* the values addIntradayPoint may be called with
Values == {-1, 0, 1}
Rects == {"sized", "zero"}
ChartLoads == DOMAIN chLoads

\* what fetchSimpleKLineData(c, 400) and calculatePeriodReturns(c) may give
\* loadData: the rows of fund c, or no rows
RowsOf(c) == {[of |-> c, rows |-> 1], NoRows}

\* Array.prototype.slice(-n), n > 0: the last n elements
Slice(s, n) == IF Len(s) <= n THEN s ELSE SubSeq(s, Len(s) - n + 1, Len(s))

\* intradayData after addIntradayPoint(value) at second t
AddedNoDrop(data, value, t) ==
  IF value <= 0 THEN data
  ELSE Append(data, [time |-> t, value |-> value])

Added(data, value, t) ==
  IF value <= 0 THEN data
  ELSE Append(IF Len(data) >= maxPoints THEN Slice(data, maxPoints - 1)
              ELSE data,
              [time |-> t, value |-> value])

\* baseValue after addIntradayPoint(value)
BaseAfter(base, value) ==
  IF value <= 0 \/ base # 0 THEN base
  ELSE IF lastClose # 0 THEN lastClose ELSE value

\* the clock after addIntradayPoint(value): a point that is kept reads the
\* next second
ClockAfter(value) == IF value <= 0 THEN clock ELSE (clock + 1) % Seconds

addIntradayPoint(value) ==
  /\ intradayData' = Added(intradayData, value, clock)
  /\ baseValue' = BaseAfter(baseValue, value)
  /\ clock' = ClockAfter(value)
  /\ chartOp' = "addIntradayPoint"
  /\ UNCHANGED <<propVars, dataVars, selVars, lifeVars, animVars>>

resetIntradayData ==
  /\ intradayData' = <<>>
  /\ baseValue' = lastClose
  /\ chartOp' = "resetIntradayData"
  /\ UNCHANGED <<clock, propVars, dataVars, selVars, lifeVars, animVars>>

IntradayNext ==
  \/ (\E value \in Values : addIntradayPoint(value))
       /\ UNCHANGED loaderVars /\ UNCHANGED notChart
  \/ resetIntradayData /\ UNCHANGED loaderVars /\ UNCHANGED notChart

\* the component after setup(), for any props.realtimeValue and props.lastClose
ChartInit ==
  /\ InitOther
  /\ InitKLine(0)
  /\ InitWatch(<<>>)
  /\ InitTasks(0)
  /\ InitHistory(0)
  /\ persistCache = [c \in Codes |-> NoData]
  /\ trading = TRUE
  /\ \E rv \in {0, 1}, lc \in {0, 1} : InitChart(rv, lc)
  /\ InitHome
  /\ InitFilter
  /\ InitSearch

IntradaySpec == ChartInit /\ [][IntradayNext]_vars

\* no handler is under way and no nextTick callback is waiting: callbacks of
\* nextTick run before the next timer, frame or event
Idle == spStep = "idle" /\ tickQueue = <<>>

\* const showIntradayChart
showIntradayChart ==
  activePeriod = "1d" /\ (Len(intradayData) > 0 \/ realtimeValue > 0)

\* the number of retry timers one drawChart() call sets: one when there is no
\* canvas, and one when there are rows to draw and the canvas has no size
DrawAdds(rect) ==
  IF ~canvasRef THEN 1
  ELSE IF ~showIntradayChart /\ chartData.rows = 0 THEN 0
  ELSE IF rect = "zero" THEN 1 ELSE 0

\* the handle requestAnimationFrame returns: one that no pending request has
NewFrame ==
  CHOOSE n \in 1..(Cardinality(frames) + 2) : n \notin frames \cup {animationFrame}

\* animationFrame and frames after startAnimation()
startAnimation ==
  IF animationFrame # 0
    THEN [animationFrame |-> animationFrame, frames |-> frames]
    ELSE [animationFrame |-> NewFrame, frames |-> frames \cup {NewFrame}]

\* animationFrame and frames after stopAnimation()
stopAnimationNoCancel ==
  [animationFrame |-> 0, frames |-> frames]

stopAnimation ==
  IF animationFrame # 0
    THEN [animationFrame |-> 0, frames |-> frames \ {animationFrame}]
    ELSE [animationFrame |-> animationFrame, frames |-> frames]

\* onMounted: the canvas of the template is in canvasRef by now
onMounted ==
  /\ mounted = "setup"
  /\ mounted' = "mounted"
  /\ canvasRef' = TRUE
  /\ resizeObserver' = TRUE
  /\ intradayData' = Added(intradayData, realtimeValue, clock)
  /\ baseValue' = BaseAfter(baseValue, realtimeValue)
  /\ clock' = ClockAfter(realtimeValue)
  /\ startTimer' = TRUE
  /\ chartOp' = "onMounted"
  /\ UNCHANGED <<animationFrame, frames, retryTimers, propVars, dataVars,
                 selVars>>

\* onUnmounted: the template refs are null by now
onUnmounted ==
  /\ mounted = "mounted"
  /\ Idle
  /\ mounted' = "unmounted"
  /\ canvasRef' = FALSE
  /\ animationFrame' = stopAnimation.animationFrame
  /\ frames' = stopAnimation.frames
  /\ resizeObserver' = FALSE
  /\ chartOp' = "onUnmounted"
  /\ UNCHANGED <<startTimer, retryTimers, propVars, dataVars, selVars, bufVars>>

\* the timer of setTimeout(startAnimation, 500) fires
StartTimerFires ==
  /\ Idle
  /\ startTimer
  /\ startTimer' = FALSE
  /\ animationFrame' = startAnimation.animationFrame
  /\ frames' = startAnimation.frames
  /\ chartOp' = "startAnimation"
  /\ UNCHANGED <<retryTimers, propVars, dataVars, selVars, bufVars, lifeVars>>

\* the browser runs animate for request f; late tells whether more than 33 ms
\* have passed since the last drawn frame
animate(f, late, rect) ==
  /\ Idle
  /\ f \in frames
  /\ retryTimers < MaxRetry
  /\ retryTimers' = IF late THEN retryTimers + DrawAdds(rect) ELSE retryTimers
  /\ animationFrame' = NewFrame
  /\ frames' = (frames \ {f}) \cup {NewFrame}
  /\ chartOp' = "animate"
  /\ UNCHANGED <<startTimer, propVars, dataVars, selVars, bufVars, lifeVars>>

\* a timer of setTimeout(drawChart, 50) fires
RetryFires(rect) ==
  /\ Idle
  /\ retryTimers > 0
  /\ retryTimers' = (retryTimers - 1) + DrawAdds(rect)
  /\ chartOp' = "drawChart"
  /\ UNCHANGED <<animationFrame, frames, startTimer, propVars, dataVars,
                 selVars, bufVars, lifeVars>>

\* the ResizeObserver calls back
ResizeObserved(rect) ==
  /\ Idle
  /\ resizeObserver
  /\ retryTimers < MaxRetry
  /\ retryTimers' = retryTimers + DrawAdds(rect)
  /\ chartOp' = "drawChart"
  /\ UNCHANGED <<animationFrame, frames, startTimer, propVars, dataVars,
                 selVars, bufVars, lifeVars>>

\* selectPeriod(key), first step: stopAnimation()
selectPeriod(key) ==
  /\ mounted = "mounted"
  /\ Idle
  /\ animationFrame' = stopAnimation.animationFrame
  /\ frames' = stopAnimation.frames
  /\ spKey' = key
  /\ spStep' = "stopped"
  /\ chartOp' = "selectPeriod"
  /\ UNCHANGED <<activePeriod, tickQueue, startTimer, retryTimers, propVars,
                 dataVars, bufVars, lifeVars>>

\* the value selectPeriod seeds the buffer with
SeedValue ==
  IF realtimeValue # 0 THEN realtimeValue
  ELSE IF lastClose # 0 THEN lastClose ELSE 1

\* selectPeriod, second step: if (key === '1d') { ... }
SelectSeed ==
  /\ spStep = "stopped"
  /\ spStep' = "seeded"
  /\ IF spKey = "1d"
       THEN /\ intradayData' = Added(<<>>, SeedValue, clock)
            /\ baseValue' = BaseAfter(lastClose, SeedValue)
            /\ clock' = ClockAfter(SeedValue)
       ELSE UNCHANGED bufVars
  /\ chartOp' = "selectPeriod"
  /\ UNCHANGED <<activePeriod, spKey, tickQueue, propVars, dataVars,
                 lifeVars, animVars>>

\* selectPeriod, last step: activePeriod.value = key; nextTick(...). When the
\* period changes, the activePeriod watcher asks for one more drawChart
SelectSet ==
  /\ spStep = "seeded"
  /\ spStep' = "idle"
  /\ activePeriod' = spKey
  /\ tickQueue' = tickQueue \o <<[cb |-> "restart", l |-> 0]>>
                    \o (IF spKey # activePeriod
                          THEN <<[cb |-> "draw", l |-> 0]>> ELSE <<>>)
  /\ chartOp' = "selectPeriod"
  /\ UNCHANGED <<spKey, propVars, dataVars, bufVars, lifeVars, animVars>>

\* the oldest nextTick callback runs: each of them calls drawChart; the one
\* of selectPeriod then calls startAnimation, the one of loadData ends it
NextTick(rect) ==
  /\ spStep = "idle"
  /\ tickQueue # <<>>
  /\ retryTimers < MaxRetry
  /\ tickQueue' = Tail(tickQueue)
  /\ retryTimers' = retryTimers + DrawAdds(rect)
  /\ IF Head(tickQueue).cb = "restart"
       THEN animationFrame' = startAnimation.animationFrame /\ frames' = startAnimation.frames
       ELSE UNCHANGED <<animationFrame, frames>>
  /\ IF Head(tickQueue).cb = "load"
       THEN /\ isLoading' = FALSE
            /\ chLoads' = [chLoads EXCEPT ![Head(tickQueue).l].st = "done"]
       ELSE UNCHANGED <<isLoading, chLoads>>
  /\ chartOp' = "nextTick"
  /\ UNCHANGED <<chartData, periodReturns, activePeriod, spKey, spStep,
                 startTimer, propVars, bufVars, lifeVars>>

ChartNext ==
  \/ onMounted /\ UNCHANGED loaderVars /\ UNCHANGED notChart
  \/ onUnmounted /\ UNCHANGED loaderVars /\ UNCHANGED notChart
  \/ StartTimerFires /\ UNCHANGED loaderVars /\ UNCHANGED notChart
  \/ (\E f \in frames, late \in BOOLEAN, rect \in Rects : animate(f, late, rect))
       /\ UNCHANGED loaderVars /\ UNCHANGED notChart
  \/ (\E rect \in Rects : RetryFires(rect))
       /\ UNCHANGED loaderVars /\ UNCHANGED notChart
  \/ (\E rect \in Rects : ResizeObserved(rect))
       /\ UNCHANGED loaderVars /\ UNCHANGED notChart
  \/ (\E key \in PeriodKeys : selectPeriod(key))
       /\ UNCHANGED loaderVars /\ UNCHANGED notChart
  \/ SelectSeed /\ UNCHANGED loaderVars /\ UNCHANGED notChart
  \/ SelectSet /\ UNCHANGED loaderVars /\ UNCHANGED notChart
  \/ (\E rect \in Rects : NextTick(rect))
       /\ UNCHANGED loaderVars /\ UNCHANGED notChart

ChartSpec == ChartInit /\ [][ChartNext]_vars

\* props.fundCode becomes c: the watcher runs resetIntradayData and loadData,
\* which runs up to its await
FundCodeChanges(l, c) ==
  /\ mounted = "mounted"
  /\ Idle
  /\ c # fundCode
  /\ chLoads[l].st = "new"
  /\ \A k \in ChartLoads : k < l => chLoads[k].st # "new"
  /\ fundCode' = c
  /\ intradayData' = <<>>
  /\ baseValue' = lastClose
  /\ isLoading' = TRUE
  /\ clearFundCache(c)
  /\ chLoads' = [chLoads EXCEPT ![l].code = c, ![l].st = "fetching"]
  /\ chartOp' = "loadData"
  /\ UNCHANGED <<realtimeValue, lastClose, chartData, periodReturns, clock,
                 selVars, lifeVars, animVars>>

\* both fetches of call l have settled: loadData stores what they gave and
\* awaits nextTick
LoadSettles(l, kline, returns) ==
  /\ Idle
  /\ chLoads[l].st = "fetching"
  /\ chartData' = kline
  /\ periodReturns' = returns
  /\ chLoads' = [chLoads EXCEPT ![l].st = "tick", ![l].kline = kline,
                                ![l].returns = returns]
  /\ tickQueue' = Append(tickQueue, [cb |-> "load", l |-> l])
  /\ chartOp' = "loadData"
  /\ UNCHANGED <<isLoading, activePeriod, spStep, spKey, propVars, bufVars,
                 lifeVars, animVars>>

ChartLoadNext ==
  \/ onMounted /\ UNCHANGED loaderVars /\ UNCHANGED notChart
  \/ (\E l \in ChartLoads, c \in Codes : FundCodeChanges(l, c))
       /\ UNCHANGED notChart
  \/ (\E l \in ChartLoads :
        \E kline \in RowsOf(chLoads[l].code), returns \in RowsOf(chLoads[l].code) :
          LoadSettles(l, kline, returns))
       /\ UNCHANGED loaderVars /\ UNCHANGED notChart
  \/ (\E rect \in Rects : NextTick(rect))
       /\ UNCHANGED loaderVars /\ UNCHANGED notChart

ChartLoadSpec == ChartInit /\ [][ChartLoadNext]_vars

\* ------------------------------------------------------------- Home alerts
\* the strings the estimate fields of a watchlist item may hold
EstimateStrings == {"", "--", "1", "2"}
ChangeStrings == {"", "1"}

\* parseFloat on these strings
ParseFloat(s) ==
  CASE s = "1" -> [nan |-> FALSE, n |-> 1]
    [] s = "2" -> [nan |-> FALSE, n |-> 2]
    [] OTHER -> [nan |-> TRUE, n |-> 0]

\* the alert rules of the alert store: one enabled rule on the value of fund
\* A, one disabled rule on fund B
AlertRules ==
  {[code |-> "A", kind |-> "value-up", threshold |-> 2, enabled |-> TRUE],
   [code |-> "B", kind |-> "change-up", threshold |-> 1, enabled |-> FALSE]}

\* the rules alertStore.checkAlerts(c, value, change) fires
Firing(c, value, change) ==
  {r \in AlertRules :
     /\ r.code = c
     /\ r.enabled
     /\ IF r.kind = "value-up" THEN value >= r.threshold
        ELSE change >= r.threshold}

\* the watcher's callback calls alertStore.checkAlerts for this item
Evaluated(fund) ==
  /\ fund.estimateValue # ""
  /\ fund.estimateChange # ""
  /\ ~ParseFloat(fund.estimateValue).nan
  /\ ~ParseFloat(fund.estimateChange).nan

\* the store updates the estimate fields of fund c; the deep watcher on
\* fundStore.watchlist then runs its callback over the whole list
WatchlistUpdates(c, ev, ec) ==
  /\ homeList[c] # [estimateValue |-> ev, estimateChange |-> ec]
  /\ \A k \in Codes : checks[k] < MaxChecks
  /\ homeList' = [homeList EXCEPT ![c] = [estimateValue |-> ev,
                                          estimateChange |-> ec]]
  /\ checks' = [k \in Codes |->
                  IF Evaluated(homeList'[k]) THEN checks[k] + 1 ELSE checks[k]]
  /\ fired' = [k \in Codes |->
                 IF Evaluated(homeList'[k])
                   THEN fired[k] + Cardinality(
                          Firing(k, ParseFloat(homeList'[k].estimateValue).n,
                                 ParseFloat(homeList'[k].estimateChange).n))
                   ELSE fired[k]]

HomeNext ==
  (\E c \in Codes, ev \in EstimateStrings, ec \in ChangeStrings :
     WatchlistUpdates(c, ev, ec)) /\ UNCHANGED notHome

HomeSpec == ChartInit /\ [][HomeNext]_vars

\* ------------------------------------------------------------- filter view
\* the values the pickers and the input may give the criteria
TypeValues == {"", "gp"}
SortValues == {"dayReturn", "weekReturn"}
MinReturns == {"", "1"}
\* what a response may hold: no rows (also script error and timeout), fewer
\* rows than pageSize, or pageSize rows
RowCounts == {"none", "some", "page"}

getTypeCode(type) == IF type = "gp" THEN "001" ELSE ""

getSortField(sort) == IF sort = "weekReturn" THEN "zzf" ELSE "rzdf"

\* loadFunds(reset) up to its await, with the criteria as the handler that
\* calls it has just set them; refresh tells whether onRefresh awaits it
loadFunds(reset, refresh) ==
  IF isLoadingFunds \/ (~reset /\ ~hasMore)
    THEN UNCHANGED <<page, fundList, hasMore, isLoadingFunds, loading>>
    ELSE /\ page' = IF reset THEN 1 ELSE page
         /\ fundList' = IF reset THEN <<>> ELSE fundList
         /\ hasMore' = IF reset THEN TRUE ELSE hasMore
         /\ isLoadingFunds' = TRUE
         /\ loading' = [ft |-> getTypeCode(fundType'),
                        sc |-> getSortField(sortBy'),
                        pi |-> page', reset |-> reset, refresh |-> refresh]

\* applyFilter()
applyFilter ==
  /\ applied' = TRUE
  /\ loadFunds(TRUE, FALSE)
  /\ UNCHANGED <<isRefreshing, filterToast>>

\* van-list emits load: it does so only while not loading and not finished
ListLoad ==
  /\ ~isLoadingFunds
  /\ hasMore
  /\ page <= MaxPage
  /\ UNCHANGED <<fundType, sortBy, minReturn, isRefreshing, applied,
                 filterToast>>
  /\ loadFunds(FALSE, FALSE)

\* the type picker confirms value t
ConfirmType(t) ==
  /\ fundType' = t
  /\ UNCHANGED <<sortBy, minReturn>>
  /\ applyFilter

\* the sort picker confirms value s
ConfirmSort(s) ==
  /\ sortBy' = s
  /\ UNCHANGED <<fundType, minReturn>>
  /\ applyFilter

\* the change event of the minimum-return input
ChangeMinReturn(m) ==
  /\ m # minReturn
  /\ minReturn' = m
  /\ UNCHANGED <<fundType, sortBy>>
  /\ applyFilter

\* onRefresh(): when loadFunds returns at once, so does the await
onRefresh ==
  /\ ~isRefreshing
  /\ UNCHANGED <<fundType, sortBy, minReturn, applied>>
  /\ loadFunds(TRUE, TRUE)
  /\ IF isLoadingFunds
       THEN filterToast' = "refreshed" /\ UNCHANGED isRefreshing
       ELSE isRefreshing' = TRUE /\ UNCHANGED filterToast

\* the response of the call under way is in (rows), or its script failed or
\* its 3 s timer fired (no rows): the code after the await
FundsSettle(rows) ==
  /\ isLoadingFunds
  /\ hasMore' = IF rows # "page" THEN FALSE ELSE hasMore
  /\ LET filtered == [ft |-> loading.ft, sc |-> loading.sc, pi |-> loading.pi,
                      min |-> minReturn, key |-> sortBy]
         kept == IF rows = "none" THEN <<>> ELSE <<filtered>>
     IN  fundList' = IF loading.reset THEN kept ELSE fundList \o kept
  /\ page' = page + 1
  /\ isLoadingFunds' = FALSE
  /\ loading' = NoLoad
  /\ IF loading.refresh
       THEN filterToast' = "refreshed" /\ isRefreshing' = FALSE
       ELSE UNCHANGED <<filterToast, isRefreshing>>
  /\ UNCHANGED <<fundType, sortBy, minReturn, applied>>

FilterNext ==
  \/ ListLoad /\ UNCHANGED notFilter
  \/ (\E t \in TypeValues : ConfirmType(t)) /\ UNCHANGED notFilter
  \/ (\E s \in SortValues : ConfirmSort(s)) /\ UNCHANGED notFilter
  \/ (\E m \in MinReturns : ChangeMinReturn(m)) /\ UNCHANGED notFilter
  \/ onRefresh /\ UNCHANGED notFilter
  \/ (\E rows \in RowCounts : FundsSettle(rows)) /\ UNCHANGED notFilter

FilterSpec == ChartInit /\ [][FilterNext]_vars

\* ------------------------------------------------------------- search view
\* the keywords typed: none, a blank, and two words
Keywords == {"", " ", "a", "b"}
Searches == DOMAIN searches

\* String.prototype.trim on these keywords
Trim(kw) == IF kw = " " THEN "" ELSE kw

\* what searchFund(kw, 30) may resolve with: no fund, or the fund the word
\* matches; q records the keyword that was searched
FundOf(kw) == IF kw = "a" THEN "A" ELSE "B"

SearchHits(kw) == {<<>>, <<[code |-> FundOf(kw), q |-> kw, gszzl |-> ""]>>}

\* the gszzl of an estimate ("": no estimate, or one without gszzl)
Gszzls == {"", "1"}

\* watch(keyword): the keyword becomes val
KeywordChanges(val) ==
  /\ val # keyword
  /\ keyword' = val
  /\ IF Trim(val) = ""
       THEN searchResults' = <<>> /\ searchTimer' = NoTimer
       ELSE searchTimer' = val /\ UNCHANGED searchResults
  /\ UNCHANGED <<isSearching, searches, searchToast>>

\* the 300 ms timer fires: doSearch(val), as call s, up to its await
DebounceFires(s) ==
  /\ searchTimer # NoTimer
  /\ searches[s].st = "new"
  /\ \A k \in Searches : k < s => searches[k].st # "new"
  /\ searchTimer' = NoTimer
  /\ isSearching' = TRUE
  /\ searches' = [searches EXCEPT ![s] = [kw |-> searchTimer, st |-> "searching"]]
  /\ UNCHANGED <<keyword, searchResults, searchToast>>

\* searchFund of call s resolves with hits: doSearch stores them and asks
\* for the estimate of the fund found
SearchSettles(s, hits) ==
  /\ searches[s].st = "searching"
  /\ searchResults' = hits
  /\ isSearching' = FALSE
  /\ searches' = [searches EXCEPT ![s].st =
                    IF hits = <<>> THEN "done" ELSE "estimating"]
  /\ UNCHANGED <<keyword, searchTimer, searchToast>>

\* searchFund of call s rejects
SearchFails(s) ==
  /\ searches[s].st = "searching"
  /\ searchToast' = "failed"
  /\ isSearching' = FALSE
  /\ searches' = [searches EXCEPT ![s].st = "done"]
  /\ UNCHANGED <<keyword, searchResults, searchTimer>>

\* the estimate call s asked for settles: its gszzl goes to the row of that
\* code in the results on screen
EstimateSettles(s, gszzl) ==
  /\ searches[s].st = "estimating"
  /\ searches' = [searches EXCEPT ![s].st = "done"]
  /\ searchResults' =
       [i \in DOMAIN searchResults |->
          IF /\ gszzl # ""
             /\ searchResults[i].code = FundOf(searches[s].kw)
             /\ \A j \in 1..(i - 1) :
                  searchResults[j].code # FundOf(searches[s].kw)
          THEN [searchResults[i] EXCEPT !.gszzl = gszzl]
          ELSE searchResults[i]]
  /\ UNCHANGED <<keyword, isSearching, searchTimer, searchToast>>

SearchNext ==
  \/ (\E val \in Keywords : KeywordChanges(val)) /\ UNCHANGED notSearch
  \/ (\E s \in Searches : DebounceFires(s)) /\ UNCHANGED notSearch
  \/ (\E s \in Searches : \E hits \in SearchHits(searches[s].kw) :
        SearchSettles(s, hits)) /\ UNCHANGED notSearch
  \/ (\E s \in Searches : SearchFails(s)) /\ UNCHANGED notSearch
  \/ (\E s \in Searches, gszzl \in Gszzls : EstimateSettles(s, gszzl))
       /\ UNCHANGED notSearch

SearchSpec == ChartInit /\ [][SearchNext]_vars

\* ------------------------------------------------------------- properties
Running == {t \in Tasks : pc[t] = "running"}
Holding == {t \in Tasks : pc[t] \in {"running", "settled"}}
Started(t) == pc[t] # "running" /\ pc'[t] = "running"
\* the step is the `await` continuation of task t
Continues(t) == microtasks # <<>> /\ t = Head(microtasks) /\ microtasks' = Tail(microtasks)

\* C1: the tasks started and not yet settled are never more than
\* MAX_CONCURRENT, and activeRequests counts the tasks holding a slot
C1_AtMostMaxConcurrent ==
  /\ Cardinality(Running) <= MAX_CONCURRENT
  /\ activeRequests = Cardinality(Holding)
  /\ activeRequests <= MAX_CONCURRENT

\* the limit is reached while a further task waits
C1_Witness ==
  /\ Cardinality(Running) = MAX_CONCURRENT
  /\ Len(requestQueue) >= 1

\* C2: tasks start in the order submitted (task ids are given in call
\* order): the queue is in submission order, a task that starts has no
\* earlier task waiting, and a fresh task starts only on an empty queue
C2_FifoAdmission ==
  /\ [](\A i, j \in 1..Len(requestQueue) : i < j => requestQueue[i] < requestQueue[j])
  /\ [][\A t \in Tasks : Started(t) =>
          /\ \A u \in Tasks : (u # t /\ pc[u] = "queued") => t < u
          /\ pc[t] = "new" => requestQueue = <<>>]_vars

\* a task that was pushed behind another waiting task has run to its end
C2_Witness ==
  \E t \in Tasks : waited[t] >= 2 /\ pc[t] = "done"

\* C3: a waiting task never coexists with a free slot, activeRequests is
\* never negative, and the continuation of a settled task starts the head
\* of a non-empty queue in the same step
C3_ImmediateAdmission ==
  /\ [](/\ activeRequests >= 0
        /\ requestQueue # <<>> => activeRequests = MAX_CONCURRENT)
  /\ [][\A t \in Tasks : (Continues(t) /\ requestQueue # <<>>) =>
          /\ Started(Head(requestQueue))
          /\ requestQueue' = Tail(requestQueue)]_vars

\* a task that waited runs after a failed and after a successful task ended
C3_Witness ==
  \E t, u, w \in Tasks :
    /\ waited[t] > 0 /\ pc[t] = "running"
    /\ result[u] = Rejected
    /\ result[w].kind = "ok"

\* C4: when a task's fn() rejected, its continuation rejects that task's
\* promise and no other, releases the slot and admits the head of the
\* queue; every finished task's promise carries that task's own outcome
C4_FailureIsolated ==
  /\ [](\A t \in Tasks : /\ pc[t] = "done" => result[t] = inner[t]
                         /\ pc[t] # "done" => result[t] = Pending)
  /\ [][\A t \in Tasks : (Continues(t) /\ inner[t] = Rejected) =>
          /\ result'[t] = Rejected
          /\ \A u \in Tasks \ {t} : result'[u] = result[u]
          /\ IF requestQueue = <<>>
             THEN activeRequests' = activeRequests - 1
             ELSE Started(Head(requestQueue))]_vars

\* after a task was rejected, a task that had waited was fulfilled
C4_Witness ==
  \E t, u \in Tasks :
    /\ result[t] = Rejected
    /\ waited[u] > 0 /\ result[u].kind = "ok"
\* C5: under fair delivery of timer and network events every estimate
\* fetch handed to the limiter is eventually admitted and settles, and
\* its slot is released
C5_EveryFetchSettles ==
  \A r \in 1..MaxReq :
    (pc[r] \in {"queued", "running"}) ~> (pc[r] = "done" /\ result[r] # Pending)
\* outbound requests in flight: scripts injected and not yet answered
InFlight ==
  Cardinality({r \in Tasks : script[r] = "loading"})
    + Cardinality({h \in Fetches : nvScript[h] = "loading"})

\* C6: at most MAX_CONCURRENT outbound fetches are in flight at once,
\* over all feed fetchers
C6_AtMostMaxInFlight == InFlight <= MAX_CONCURRENT

\* the step is a call of fetchFundEstimateFast made as task r
Called(r) == pc[r] = "new" /\ pc'[r] # "new"
NoNetwork ==
  UNCHANGED <<activeRequests, requestQueue, pendingRequests, timers, script,
              inDom>>

\* C7: a call that finds a live entry for its code returns that entry at
\* once and takes no slot, registers no record, sets no timer and injects
\* no script
C7_LiveHitReturnsAtOnce ==
  [][\A r \in Tasks : (Called(r) /\ cache[code'[r]] # NoData) =>
       /\ pc'[r] = "done"
       /\ result'[r] = Fulfilled(cache[code'[r]])
       /\ NoNetwork]_vars

\* a call was answered from the live cache
C7_Witness ==
  \E r \in Tasks :
    /\ pc[r] = "done" /\ code[r] # "" /\ script[r] = "none"
    /\ persisted[r] = NoData /\ result[r].kind = "ok"
    /\ \E u \in Tasks : u < r /\ script[u] # "none"

\* C8: outside trading hours a call that misses the live cache and finds
\* a persisted entry returns that entry without any network activity
C8_ClosedMarketUsesPersisted ==
  [][\A r \in Tasks :
       (/\ Called(r)
        /\ cache[code'[r]] = NoData
        /\ ~trading
        /\ persistCache[code'[r]] # NoData) =>
       /\ pc'[r] = "done"
       /\ result'[r] = Fulfilled(persistCache[code'[r]])
       /\ NoNetwork]_vars

\* a call was answered from the persisted cache
C8_Witness ==
  \E r \in Tasks :
    /\ pc[r] = "done" /\ script[r] = "none"
    /\ persisted[r] # NoData /\ result[r] = Fulfilled(persisted[r])

\* the step delivers the script of some request, whose jsonpgz call
\* carries a fundcode that a pending record has
Matches(i) ==
  /\ \E r \in Tasks : script[r] = "loading" /\ script'[r] = "loaded"
  /\ jsonpArg'.fundcode # ""
  /\ i \in 1..Len(pendingRequests)
  /\ code[pendingRequests[i]] = jsonpArg'.fundcode
  /\ \A j \in 1..(i - 1) : code[pendingRequests[j]] # jsonpArg'.fundcode

\* C9: when jsonpgz gets data whose fundcode matches a pending request,
\* that request's caller is resolved with the data and the data is in the
\* live and in the persisted cache under the code
C9_MatchResolvesAndCaches ==
  [][\A i \in 1..Len(pendingRequests) : Matches(i) =>
       /\ inner'[pendingRequests[i]] = Fulfilled(jsonpArg')
       /\ cache'[jsonpArg'.fundcode] = jsonpArg'
       /\ persistCache'[jsonpArg'.fundcode] = jsonpArg']_vars

\* the step is the 8 s timeout of request r / the onerror of its script
TimedOut(r) ==
  timers # <<>> /\ r = Head(timers) /\ timers' = Tail(timers) /\ script' = script
LoadFailed(r) == script[r] = "loading" /\ script'[r] = "failed"

\* C10: an unsettled fetch whose timeout fires or whose script fails
\* resolves to the persisted entry of its code when there is one and
\* rejects when there is none
C10_FailureFallsBackToPersisted ==
  [][\A r \in Tasks :
       ((TimedOut(r) \/ LoadFailed(r)) /\ inner[r] = Pending) =>
       inner'[r] = IF persistCache[code[r]] # NoData
                   THEN Fulfilled(persistCache[code[r]])
                   ELSE Rejected]_vars
\* the step delivers the script of estimate request r after r's timeout
\* fired and removed its record
LateEstimate(r) ==
  /\ script[r] = "loading" /\ script'[r] = "loaded"
  /\ inner[r] # Pending
  /\ \A i \in 1..Len(timers) : timers[i] # r
  /\ \A i \in 1..Len(pendingRequests) : pendingRequests[i] # r

\* the step delivers the script of history fetch h after h's timeout fired
LateHistory(h) ==
  /\ nvScript[h] = "loading" /\ nvScript'[h] = "loaded"
  /\ nvResult[h] # Pending

\* C11: a response that comes after the timeout cleaned its request up
\* writes no cache entry and resolves no caller, on the estimate channel
\* and on the onload channel of the history fetcher
C11_LateResponseIgnored ==
  /\ [][\A r \in Tasks : LateEstimate(r) =>
          UNCHANGED <<cache, persistCache, inner, result>>]_vars
  /\ [][\A h \in Fetches : LateHistory(h) =>
          UNCHANGED <<nvCache, nvResult>>]_vars

\* C12: fetchFundEstimatesBatch never rejects; it makes one
\* fetchFundEstimateFast call per code, in order; it resolves exactly when
\* every per-code fetch has settled and its wrapper has run; the resolved map
\* holds a code iff a fetch of that code resolved, mapped to a fetched value,
\* and codes whose fetches all rejected are absent.
C12_BatchNeverRejects ==
  /\ batchState # "rejected"
  /\ batchState \in {"waiting", "resolved"} =>
       /\ Len(batchTasks) = Len(batchCodes)
       /\ \A i \in 1..Len(batchTasks) : code[batchTasks[i]] = batchCodes[i]
       /\ Cardinality(BatchSet) = Len(batchCodes)
  /\ batchState = "resolved" <=>
       /\ batchState \in {"waiting", "resolved"}
       /\ \A r \in BatchSet : result[r] # Pending /\ r \in collected
  /\ batchState = "resolved" =>
       \A c \in Codes :
         LET ok == {r \in BatchSet : code[r] = c /\ result[r].kind = "ok"}
         IN  IF ok = {} THEN results[c] = NoData
             ELSE \E r \in ok : results[c] = result[r].val /\ results[c] # NoData

C12_Witness ==
  /\ batchState = "resolved"
  /\ \E r, u \in BatchSet : result[r].kind = "ok" /\ result[u].kind = "err"

\* the call i returns on a live cache hit
IxHit(i) == ixState[i] = "new" /\ ixState'[i] = "done"

\* the call i ends on a response that is a network or a parse failure: no
\* response, a body that is not the expected JSON / callback call, or a
\* diff that is not an array of objects
IxFailure(resp) ==
  \/ resp.is \in {"fail", "html", "objdiff"}
  \/ resp.is = "diff" /\ MapThrows(resp.diff)

IxFails(i) ==
  ixState[i] = "fetching" /\ ixState'[i] = "done" /\ IxFailure(ixResp'[i])

\* the value the claim gives for a failure
IxEmpty(k) == IF k = "global_indices" THEN getDefaultGlobalIndices ELSE <<>>

\* C13: fetchMarketIndicesFast, fetchFundRankingFast and fetchGlobalIndices
\* never reject; a call that finds a live cache entry returns that entry; a
\* call that ends in a network or parse failure resolves to the empty list
\* (fetchGlobalIndices: to the zero-valued fallback list) and leaves the
\* live cache unchanged.
C13_IndexFetchersRecover ==
  /\ [](\A i \in IndexCalls : ixResult[i].kind # "err")
  /\ [][\A i \in IndexCalls :
          /\ IxHit(i) =>
               /\ ixResult'[i] = IxFulfilled(ixCache[ixKey'[i]].val)
               /\ UNCHANGED ixCache
          /\ IxFails(i) =>
               /\ ixResult'[i] = IxFulfilled(IxEmpty(ixKey[i]))
               /\ UNCHANGED ixCache]_vars

\* the call l is settled by its timeout, by script.onerror, or by an onload
\* after a file that lacks the globals or holds them in a shape that makes
\* the parse throw
LdTimesOut(l) ==
  /\ ldResult[l] = LdPending /\ ldResult'[l] # LdPending
  /\ ldScript'[l] = ldScript[l]
LdErrors(l) == ldScript[l] = "loading" /\ ldScript'[l] = "failed"
LdLoadsNothing(l) ==
  /\ ldScript[l] = "loading" /\ ldScript'[l] = "loaded"
  /\ ldPayload'[l] \in {"missing", "bad"}

\* C14: the six script-loading fetchers never reject; a call settled by its
\* timeout, by a script error, by a file without the payload or by a parse
\* failure resolves to the empty result ([] or null); and every call
\* settles: a pending call has a live timeout, and a call whose script has
\* loaded or failed is settled.
C14_LoadersRecover ==
  /\ [](\A l \in Loads :
          /\ ldResult[l].kind # "err"
          /\ ldKey[l] # NoKey /\ ldResult[l] = LdPending =>
               \E n \in 1..Len(ldTimers) : ldTimers[n] = l
          /\ ldScript[l] \in {"loaded", "failed"} => ldResult[l] # LdPending)
  /\ [][\A l \in Loads :
          (ldResult[l] = LdPending
             /\ (LdTimesOut(l) \/ LdErrors(l) \/ LdLoadsNothing(l)))
            => ldResult'[l] = LdFulfilled(EmptyVal)]_vars

\* C15: right after clearFundCache(c) the live cache has no entry of fund c,
\* whatever fetcher wrote it and whatever its days parameter.
C15_ClearRemovesEveryKey ==
  \A c \in Codes :
    lastCleared = c => \A k \in ClearedAll(c) : ldCache[k] = Nothing

\* the days of the entries of a result, and the entry of a window
DaysOf(res) == {res[j].days : j \in 1..Len(res)}
Windows == {Periods[p] : p \in 1..Len(Periods)}
Qualifying(h, d) == {i \in 1..Len(h) : h[i].age >= d}
MostRecent(h, d) == CHOOSE i \in Qualifying(h, d) : \A j \in Qualifying(h, d) : i <= j

\* the entries are in the order of the window list, one per window at most,
\* each the change from the most recent qualifying record to the latest
WellFormed(h, res) ==
  /\ \A j \in 1..Len(res) : res[j].days \in Windows
  /\ \A j \in 1..(Len(res) - 1) : res[j].days < res[j + 1].days
  /\ \A j \in 1..Len(res) :
       /\ Qualifying(h, res[j].days) # {}
       /\ h[MostRecent(h, res[j].days)].nv > 0 =>
            res[j].change * h[MostRecent(h, res[j].days)].nv * 2
              - (h[1].nv - h[MostRecent(h, res[j].days)].nv) * 20000
              \in (0 - h[MostRecent(h, res[j].days)].nv)
                    ..h[MostRecent(h, res[j].days)].nv

\* the 2-record history of the example: latest 1.10, 1.00 eight days earlier
Example == <<Rec(0, 110), Rec(8, 100)>>

\* C16 (as stated): computed from a newest-first history, the result has the
\* windows 7, 30, 90, 180, 365 in that order, each with the percentage
\* change from the most recent record dated on or before now minus the
\* window to the latest record; a window is omitted exactly when no such
\* record exists or the latest value is non-positive; the example history
\* yields only the 1-week entry, +10.00.
C16_PeriodReturns ==
  prFrom = "history" =>
    /\ WellFormed(prHistory, prResult)
    /\ DaysOf(prResult) =
         {d \in Windows : Qualifying(prHistory, d) # {} /\ prHistory[1].nv > 0}
    /\ prHistory = Example => prResult = <<[days |-> 7, change |-> 1000]>>

\* C16 (amended): as above, but a window is omitted exactly when the history
\* has fewer than two records, the latest value is non-positive, no record
\* qualifies, or the most recent qualifying record has a non-positive value.
C16_PeriodReturnsAmended ==
  prFrom = "history" =>
    /\ WellFormed(prHistory, prResult)
    /\ DaysOf(prResult) =
         {d \in Windows :
            /\ Len(prHistory) >= 2
            /\ prHistory[1].nv > 0
            /\ Qualifying(prHistory, d) # {}
            /\ prHistory[MostRecent(prHistory, d)].nv > 0}
    /\ prHistory = Example => prResult = <<[days |-> 7, change |-> 1000]>>

C16_Witness ==
  /\ prFrom = "history"
  /\ prHistory = Example
  /\ prResult = <<[days |-> 7, change |-> 1000]>>

\* the K-line call h has returned a series computed from its history fetch
KLineComputed(h) ==
  klCode[h] # "" /\ klResult[h] # Pending /\ nvResult[h] # Pending

\* C17: fetchSimpleKLineData returns the history its fetch for the same
\* code and days gave, as (time, value, change) triples in the reverse of
\* the history's order: same length, time ascending; the call stores the
\* series under the K-line key, and the history key changes only as the
\* history fetch itself writes it; a call on a live K-line entry returns it.
C17_KLineIsReversedProjection ==
  /\ [](\A h \in Fetches : KLineComputed(h) =>
          LET k == klResult[h].val
              hist == nvResult[h].val
          IN  /\ nvCode[h] = klCode[h]
              /\ Len(k) = Len(hist)
              /\ \A i \in 1..Len(k) :
                   /\ k[i].time = hist[Len(hist) + 1 - i].date
                   /\ k[i].value = hist[Len(hist) + 1 - i].netValue
                   /\ k[i].change = hist[Len(hist) + 1 - i].changeRate
              /\ \A i \in 1..(Len(k) - 1) : k[i].time < k[i + 1].time)
  /\ [][\A h \in Fetches :
          (klResult[h] = Pending /\ klResult'[h] # Pending) =>
            IF klCode[h] = "" /\ klCache[klCode'[h]].hit
            THEN /\ klResult'[h] = Fulfilled(klCache[klCode'[h]].val)
                 /\ UNCHANGED <<klCache, nvCache>>
            ELSE /\ klCache'[klCode'[h]] = Entry(klResult'[h].val)
                 /\ \A c \in Codes :
                      nvCache'[c] # nvCache[c] =>
                        c = klCode'[h] /\ nvCache'[c] = Entry(nvResult'[h].val)]_vars

C17_Witness ==
  \E h \in Fetches :
    /\ KLineComputed(h)
    /\ Len(klResult[h].val) = 2
    /\ klCache[klCode[h]] = Entry(klResult[h].val)
    /\ nvCache[klCode[h]] = Entry(nvResult[h].val)

\* handleAdd is invoked for a fund that is in the watchlist
DuplicateAdd(c) ==
  addSeq' # addSeq /\ lastFund' = c /\ isFundInWatchlist(c)

\* C18: whatever handleAdd invocations came before, a handleAdd for a fund
\* whose code is in the watchlist leaves the watchlist as it is, makes no
\* addFund call and shows the duplicate notification.
C18_DuplicateAddRejected ==
  [][\A c \in WatchCodes :
       DuplicateAdd(c) =>
         /\ watchlist' = watchlist
         /\ addFundCalls' = addFundCalls /\ adding' = adding
         /\ toast' = "duplicate"]_vars

C18_Witness ==
  /\ toast = "duplicate"
  /\ isFundInWatchlist(lastFund)
  /\ addFundCalls > 0

\* the requests that have a record in pendingRequests / a live timer
Recorded(s) == {s[i] : i \in 1..Len(s)}

\* the step is an event of request r: its timeout, the onerror of its
\* script, or the arrival of its script
Arrived(r) == script[r] = "loading" /\ script'[r] = "loaded"
EventOf(r) == TimedOut(r) \/ LoadFailed(r) \/ Arrived(r)

\* C19: an event of a dispatched estimate fetch r removes no record and
\* cancels no timer of another request and settles no other promise; the
\* event that settles r leaves neither r's record nor r's timer behind, so
\* a settled request has none; an event of a request that is already
\* settled changes nothing of the fetch state.
C19_CleanupExactlyOnce ==
  /\ [][\A r \in Tasks : EventOf(r) =>
          /\ \A q \in Tasks \ {r} :
               /\ q \in Recorded(pendingRequests) => q \in Recorded(pendingRequests')
               /\ q \in Recorded(timers) => q \in Recorded(timers')
               /\ inner'[q] = inner[q]
          /\ (inner[r] = Pending /\ inner'[r] # Pending) =>
               /\ r \notin Recorded(pendingRequests')
               /\ r \notin Recorded(timers')
          /\ inner[r] # Pending =>
               UNCHANGED <<pendingRequests, timers, inner, cache, persistCache>>]_vars
  /\ [](\A r \in Tasks : inner[r] # Pending =>
          r \notin Recorded(pendingRequests) /\ r \notin Recorded(timers))

\* C20: pendingRequests never holds two records of one fund code.
C20_OneRecordPerCode ==
  \A i, j \in 1..Len(pendingRequests) :
    code[pendingRequests[i]] = code[pendingRequests[j]] => i = j

\* C21: a jsonpgz call without data, or with data that has no fundcode,
\* changes neither pendingRequests nor any timer nor either cache nor any
\* promise.
C21_UncorrelatedResponseDiscarded ==
  [][(\E r \in Tasks : Arrived(r)) /\ jsonpArg'.fundcode = "" =>
       UNCHANGED <<pendingRequests, timers, cache, persistCache, inner,
                   result>>]_vars

C21_Witness ==
  \E r \in Tasks :
    /\ script[r] = "loaded"
    /\ jsonpArg.fundcode = ""
    /\ inner[r] = Pending
    /\ r \in Recorded(pendingRequests) /\ r \in Recorded(timers)

\* the loadData calls made so far, and the latest of them
IssuedLoads == {l \in ChartLoads : chLoads[l].st # "new"}
LatestLoad == CHOOSE l \in IssuedLoads : \A k \in IssuedLoads : k <= l

\* C22: once every loadData call has settled, chartData and periodReturns
\* hold what the fetches gave the latest call, the one made for the current
\* props.fundCode: data arriving for an earlier fund code is discarded.
C22_StaleChartDataDiscarded ==
  (IssuedLoads # {} /\ \A l \in IssuedLoads : chLoads[l].st = "done") =>
    /\ chLoads[LatestLoad].code = fundCode
    /\ chartData = chLoads[LatestLoad].kline
    /\ periodReturns = chLoads[LatestLoad].returns

\* C23: once onUnmounted has run, no animation frame is pending and no
\* drawChart retry timer is pending, whatever the timing of mount, period
\* selection and unmount.
C23_NoAnimationAfterUnmount ==
  mounted = "unmounted" => frames = {} /\ retryTimers = 0

\* a selectPeriod call has cancelled the loop and its nextTick callback has
\* not restarted it yet
Restarting ==
  spStep # "idle" \/ \E i \in DOMAIN tickQueue : tickQueue[i].cb = "restart"

InArrivalOrder(data) ==
  \A i \in 1..(Len(data) - 1) : data[i + 1].time = (data[i].time + 1) % Seconds

\* C30: the intraday buffer never holds more than 500 points, every point
\* has a value above 0 and the points are in arrival order; a call that adds
\* a point appends it, dropping exactly the oldest point when the buffer was
\* full; a call with a value that is not above 0 adds nothing;
\* resetIntradayData leaves the buffer empty.
C30_IntradayBuffer ==
  /\ [](/\ Len(intradayData) <= maxPoints
        /\ \A i \in DOMAIN intradayData : intradayData[i].value > 0
        /\ InArrivalOrder(intradayData))
  /\ [][/\ (chartOp' = "addIntradayPoint" /\ clock' # clock) =>
            LET new == intradayData'[Len(intradayData')]
            IN  /\ new.time = clock
                /\ intradayData' =
                     Append(IF Len(intradayData) = maxPoints
                              THEN Tail(intradayData) ELSE intradayData, new)
        /\ (chartOp' = "addIntradayPoint" /\ clock' = clock) =>
            UNCHANGED intradayData
        /\ chartOp' = "resetIntradayData" => intradayData' = <<>>]_vars

C30_Witness ==
  /\ chartOp = "addIntradayPoint"
  /\ Len(intradayData) = maxPoints
  /\ intradayData[maxPoints].time = (clock + Seconds - 1) % Seconds
  /\ intradayData[1].time # 0

\* fund c's estimate is past the threshold of an enabled rule
PastThreshold(c) ==
  /\ Evaluated(homeList[c])
  /\ Firing(c, ParseFloat(homeList[c].estimateValue).n,
            ParseFloat(homeList[c].estimateChange).n) # {}

\* C25: a watchlist update that leaves the estimate of fund c as it was, past
\* the threshold of an enabled rule, triggers no further alert evaluation
\* for c and fires no further alert for it.
C25_AlertOncePerObservation ==
  [][\A c \in Codes :
       (homeList'[c] = homeList[c] /\ PastThreshold(c)) =>
         checks'[c] = checks[c] /\ fired'[c] = fired[c]]_vars

\* the histories that are built from the payload of fund c: the records of
\* its trend, or none
OwnHistories(c) == {<<>>, ToRecords(TrendOf(c), DefaultDays)}

\* C26: the history returned or cached for a fund code, and the K-line
\* series returned or cached for it, is built from that fund's payload (or
\* is empty): it never holds what another fund's script left in
\* Data_netWorthTrend.
C26_HistoryFromOwnPayload ==
  /\ \A h \in Fetches :
       (nvCode[h] # "" /\ nvResult[h] # Pending) =>
         nvResult[h].val \in OwnHistories(nvCode[h])
  /\ \A c \in Codes :
       nvCache[c].hit => nvCache[c].val \in OwnHistories(c)
  /\ \A h \in Fetches :
       (klCode[h] # "" /\ klResult[h] # Pending) =>
         \E own \in OwnHistories(klCode[h]) : klResult[h].val = KLineOf(own)
  /\ \A c \in Codes :
       klCache[c].hit =>
         \E own \in OwnHistories(c) : klCache[c].val = KLineOf(own)

\* C27: no live cache entry holds a fail-soft empty result, neither under the
\* history key nor under the K-line key, so that a call after a failed fetch
\* goes to the network again.
C27_NoEmptyResultCached ==
  \A c \in Codes :
    /\ nvCache[c].hit => nvCache[c].val # <<>>
    /\ klCache[c].hit => klCache[c].val # <<>>

\* C28: once applyFilter has been called and no load is in flight, every
\* page in fundList was fetched and filtered under the current type, sort
\* field and minimum return, and the pages are 1, 2, ... in order.
C28_FilterChangeNotLost ==
  (applied /\ ~isLoadingFunds) =>
    \A i \in DOMAIN fundList :
      /\ fundList[i].ft = getTypeCode(fundType)
      /\ fundList[i].sc = getSortField(sortBy)
      /\ fundList[i].min = minReturn
      /\ fundList[i].key = sortBy
      /\ fundList[i].pi = i

\* no debounce timer is pending and no doSearch call is under way
SearchesSettled ==
  /\ searchTimer = NoTimer
  /\ \A s \in Searches : searches[s].st \in {"new", "done"}

\* C29: once the keyword has stopped changing and every search has settled,
\* searchResults holds only rows the search for the current keyword
\* returned, and no row when the keyword is blank.
C29_ResultsOfLatestKeyword ==
  SearchesSettled =>
    /\ Trim(keyword) = "" => searchResults = <<>>
    /\ \A i \in DOMAIN searchResults : searchResults[i].q = keyword
====
